---- MODULE Spec2Model ----
(***************************************************************************)
(* A model of the meraki_auditor execution engine (src/src/meraki_auditor/ *)
(* core.py): MerakiConnection.select_networks, PlaybookExecutor.execute    *)
(* and its two dispatch strategies, with the remote dashboard as the       *)
(* environment.  Python dicts whose key order is never observed are TLA+   *)
(* functions; the result buckets are an ordered list of <<key, value>>.    *)
(***************************************************************************)
EXTENDS Integers, Sequences, FiniteSets, TLC

VARIABLES
    fleet,              \* the remote dashboard: network id -> the devices discovery returns
    networks,           \* MerakiConnection.networks
    selected_networks,  \* MerakiConnection.selected_networks
    devices,            \* MerakiConnection.devices, the cache device-level dispatch reads
    executor_devices,   \* PlaybookExecutor.devices
    current_playbook,   \* PlaybookExecutor.current_playbook: <<>> is None, <<p>> a playbook
    results,            \* PlaybookExecutor.results: the empty function is {}
    callLog,            \* remote calls issued by the last operation, in order
    progressLog,        \* values passed to the progress callback by the last execute
    stepLog,            \* per step of the last execute: what its dispatch gave
    lastOp,             \* the last operation and how it ended
    ops,                \* operations of this session counted against MaxOps
    written,            \* directories made and files written by the last operation
    probe               \* a function of the playbook model applied alone: input and output

vars == <<fleet, networks, selected_networks, devices, executor_devices,
          current_playbook, results, callLog, progressLog, stepLog, lastOp, ops,
          written, probe>>

(***************************************************************************)
(* Bounds of the model.                                                    *)
(***************************************************************************)
MaxOps == 2         \* select_networks, load_playbook, execute, setup_ui calls and clicks on a button
MaxFailures == 2    \* remote calls that raise within one operation

(***************************************************************************)
(* Python float arithmetic (IEEE-754 binary64, round to nearest even) on   *)
(* the non-negative values the progress computation produces.  A double is *)
(* [m, e]: the value m * 2^e with m a 53-bit integer kept as little-endian *)
(* limbs of 13 bits; zero is [m |-> <<>>, e |-> 0].                        *)
(***************************************************************************)
LimbBits == 13
LimbBase == 8192
MantBits == 53

RECURSIVE Pow2(_)
Pow2(n) == IF n = 0 THEN 1 ELSE 2 * Pow2(n - 1)

Min2(a, b) == IF a <= b THEN a ELSE b
Max2(a, b) == IF a >= b THEN a ELSE b

Limb(a, i) == IF i >= 1 /\ i <= Len(a) THEN a[i] ELSE 0

RECURSIVE BNorm(_)
BNorm(a) == IF a = <<>> THEN a
            ELSE IF a[Len(a)] = 0 THEN BNorm(SubSeq(a, 1, Len(a) - 1)) ELSE a

RECURSIVE BCarry(_, _)
BCarry(cols, carry) ==
    IF cols = <<>>
    THEN (IF carry = 0 THEN <<>>
          ELSE <<carry % LimbBase>> \o BCarry(<<>>, carry \div LimbBase))
    ELSE LET v == Head(cols) + carry
         IN <<v % LimbBase>> \o BCarry(Tail(cols), v \div LimbBase)

BAdd(a, b) ==
    BNorm(BCarry([i \in 1..Max2(Len(a), Len(b)) |-> Limb(a, i) + Limb(b, i)], 0))

RECURSIVE ColSum(_, _, _, _)
ColSum(a, b, k, i) == IF i > Len(a) THEN 0
                      ELSE Limb(a, i) * Limb(b, k + 1 - i) + ColSum(a, b, k, i + 1)

BMul(a, b) ==
    IF a = <<>> \/ b = <<>> THEN <<>>
    ELSE BNorm(BCarry([k \in 1..(Len(a) + Len(b) - 1) |-> ColSum(a, b, k, 1)], 0))

RECURSIVE IntBitLen(_)
IntBitLen(n) == IF n = 0 THEN 0 ELSE 1 + IntBitLen(n \div 2)

BBitLen(a) == LET n == BNorm(a)
              IN IF n = <<>> THEN 0
                 ELSE LimbBits * (Len(n) - 1) + IntBitLen(n[Len(n)])

BBit(a, i) == (Limb(a, (i \div LimbBits) + 1) \div Pow2(i % LimbBits)) % 2

BShr(a, s) ==
    LET q == s \div LimbBits
        r == s % LimbBits
        n == Max2(Len(a) - q, 0)
    IN BNorm([i \in 1..n |-> (Limb(a, i + q) \div Pow2(r))
                             + (Limb(a, i + q + 1) % Pow2(r)) * Pow2(LimbBits - r)])

BShl(a, s) ==
    LET q == s \div LimbBits
        r == s % LimbBits
    IN IF a = <<>> THEN <<>>
       ELSE BNorm([i \in 1..(Len(a) + q + 1) |->
                IF i <= q THEN 0
                ELSE (Limb(a, i - q) % Pow2(LimbBits - r)) * Pow2(r)
                     + (Limb(a, i - q - 1) \div Pow2(LimbBits - r))])

BLowBits(a, s) == \E i \in 0..(s - 1) : BBit(a, i) = 1

FZero == [m |-> <<>>, e |-> 0]

\* the double nearest to M * 2^E, ties to even
RoundToDouble(M, E) ==
    LET len == BBitLen(M) IN
    IF len = 0 THEN FZero
    ELSE IF len <= MantBits
    THEN [m |-> BShl(BNorm(M), MantBits - len), e |-> E - (MantBits - len)]
    ELSE LET s == len - MantBits
             q == BShr(M, s)
             up == BBit(M, s - 1) = 1 /\ (BLowBits(M, s - 1) \/ BBit(q, 0) = 1)
             q1 == IF up THEN BAdd(q, <<1>>) ELSE q
         IN IF BBitLen(q1) > MantBits
            THEN [m |-> BShr(q1, 1), e |-> E + s + 1]
            ELSE [m |-> q1, e |-> E + s]

RECURSIVE LongDiv(_, _, _)
LongDiv(msf, q, rem) ==
    IF msf = <<>> THEN <<<<>>, rem>>
    ELSE LET v == rem * LimbBase + Head(msf)
             rest == LongDiv(Tail(msf), q, v % q)
         IN <<<<v \div q>> \o rest[1], rest[2]>>

Reverse(s) == [i \in 1..Len(s) |-> s[Len(s) + 1 - i]]

\* p / q of two small non-negative ints: the correctly rounded quotient
FDivInt(p, q) ==
    LET d == LongDiv(<<p, 0, 0, 0, 0, 0, 0>>, q, 0)
        Q == BNorm(Reverse(d[1]))
        M == BAdd(BShl(Q, 1), IF d[2] = 0 THEN <<>> ELSE <<1>>)
    IN RoundToDouble(M, -(6 * LimbBits + 1))

FFromInt(n) == RoundToDouble(BNorm(<<n>>), 0)

FMul(a, b) == IF a.m = <<>> \/ b.m = <<>> THEN FZero
              ELSE RoundToDouble(BMul(a.m, b.m), a.e + b.e)

FAdd(a, b) ==
    IF a.m = <<>> THEN b
    ELSE IF b.m = <<>> THEN a
    ELSE LET e == Min2(a.e, b.e)
         IN RoundToDouble(BAdd(BShl(a.m, a.e - e), BShl(b.m, b.e - e)), e)

RECURSIVE LimbsLess(_, _, _)
LimbsLess(a, b, i) == IF i = 0 THEN FALSE
                      ELSE IF a[i] # b[i] THEN a[i] < b[i]
                      ELSE LimbsLess(a, b, i - 1)

\* a < b on non-negative doubles
FLess(a, b) == IF b.m = <<>> THEN FALSE
               ELSE IF a.m = <<>> THEN TRUE
               ELSE IF a.e # b.e THEN a.e < b.e
               ELSE LimbsLess(a.m, b.m, Len(a.m))

F100 == FFromInt(100)

(***************************************************************************)
(* The environment: the organisation's networks and the device lists the   *)
(* dashboard returns.  A device record is a Python dict, here a TLA+       *)
(* record; some endpoints return partial records without a serial.         *)
(***************************************************************************)
AllNetworks == << [id |-> "N1", name |-> "hq"], [id |-> "N2", name |-> "branch"] >>

NetworkIds == {AllNetworks[i].id : i \in DOMAIN AllNetworks}

DevA == [serial |-> "Q-A", name |-> "sw-a", model |-> "MS120", productType |-> "switch"]
DevB == [serial |-> "Q-B", name |-> "ap-b", model |-> "MR36", productType |-> "wireless"]
DevC == [serial |-> "Q-C", model |-> "MX67"]
DevP == [name |-> "ghost", model |-> "MS120"]

Fleets == { [N1 |-> <<DevA, DevB>>, N2 |-> <<DevC>>],
            [N1 |-> <<DevA, DevP>>, N2 |-> <<DevC>>],
            [N1 |-> <<DevP, DevA>>, N2 |-> <<>>] }

RECURSIVE SumLen(_, _)
SumLen(f, S) == IF S = {} THEN 0
                ELSE LET k == CHOOSE x \in S : TRUE
                     IN Len(f[k]) + SumLen(f, S \ {k})

SetMax(S) == CHOOSE x \in S : \A y \in S : y <= x

\* API responses are tagged with their Python type
PyList(items) == [t |-> "list", v |-> items]
PyDict(fields) == [t |-> "dict", v |-> fields]
PyStr(s) == [t |-> "str", v |-> s]
PyNone == [t |-> "none"]

NetworkApiMethods == {"getNetworkDevices", "getNetworkSwitchSettings"}
DeviceApiMethods == {"getDevice", "getDeviceSwitchPorts"}

\* str(e) of the exceptions the engine meets
ApiErrorText == "API error"
KeyErrorSerial == "'serial'"
\* getattr(dashboard.networks, method) on a method the client does not have
NoAttribute(method) == "'Networks' object has no attribute '" \o method \o "'"

\* datetime.now() is read as the microseconds that have passed since 16:57:00
\* on 30 October 2026: the second is t \div 1000000 and the microsecond is
\* t % 1000000
Digits == <<"0", "1", "2", "3", "4", "5", "6", "7", "8", "9">>

\* the decimal digits of n in a field of the given width, zeros in front
RECURSIVE ZeroPad(_, _)
ZeroPad(n, width) ==
    IF width = 0 THEN "" ELSE ZeroPad(n \div 10, width - 1) \o Digits[(n % 10) + 1]

\* strftime("%Y%m%d_%H%M%S"): the second, never the microsecond
strftime(t) == "20261030_1657" \o ZeroPad(t \div 1000000, 2)

\* isoformat(): the fraction is left out when the microsecond is 0
isoformat(t) ==
    "2026-10-30T16:57:" \o ZeroPad(t \div 1000000, 2)
    \o (IF t % 1000000 = 0 THEN "" ELSE "." \o ZeroPad(t % 1000000, 6))

\* timedelta.total_seconds() of a difference of us microseconds: the float
\* us / 10**6; 10**6 is 15625 * 2^6, and a division by 2^6 only lowers the
\* exponent
total_seconds(us) ==
    IF us = 0 THEN FZero ELSE [FDivInt(us, 15625) EXCEPT !.e = @ - 6]

\* the instants at which the clock is read while an operation runs:
\* 16:57:03.900000 and 16:57:05.000000
Instants == {3900000, 5000000}

\* the readings of the clock one operation takes, in the order of its n calls
\* of datetime.now(): each call reads the clock anew, and no reading is
\* earlier than the one before
Readings(n) ==
    {c \in [1..n -> Instants] : \A i \in 1..n : \A j \in i..n : c[i] <= c[j]}

\* the readings that are left once the first k are taken
Later(clock, k) == [i \in {j - k : j \in DOMAIN clock \ (1..k)} |-> clock[i + k]]

RECURSIVE Join(_, _)
Join(parts, sep) == IF Len(parts) = 0 THEN ""
                    ELSE IF Len(parts) = 1 THEN parts[1]
                    ELSE parts[1] \o sep \o Join(Tail(parts), sep)

\* the next remote call of this operation raises
Raises(calls, fails) == (Len(calls) + 1) \in fails

Call(api, method, params, step, calls, fails) ==
    [api |-> api, method |-> method, params |-> params, step |-> step,
     ok |-> ~Raises(calls, fails)]

\* what the dashboard returns when the call does not raise
Response(fl, api, method, params) ==
    IF api = "networks" /\ method = "getNetworkDevices"
    THEN PyList(fl[params.networkId])
    ELSE IF api = "networks"
    THEN PyDict([networkId |-> PyStr(params.networkId), source |-> PyStr(method)])
    ELSE PyDict([serial |-> PyStr(params.serial), source |-> PyStr(method),
                 staticDns |-> PyDict([ip |-> PyStr("10.0.0.1")])])

\* [d for d in devices if 'serial' in d]
WithSerial(devs) == SelectSeq(devs, LAMBDA d : "serial" \in DOMAIN d)

\* {**parameters, key: value}
MergeParams(parameters, key, value) ==
    [k \in (DOMAIN parameters) \cup {key} |-> IF k = key THEN value ELSE parameters[k]]

NoParams == [k \in {} |-> ""]

(***************************************************************************)
(* Playbook model (core.py, ApiCall and Playbook).  An endpoint is kept as *)
(* the list of its dot-separated segments, a field path likewise.          *)
(***************************************************************************)
\* endpoint.startswith('devices.')
StartsWithDevices(endpoint) == Len(endpoint) >= 2 /\ endpoint[1] = "devices"

ApiCall(name, endpoint, method, output_folder, parameters, output_filter, requires_device) ==
    [name |-> name, endpoint |-> endpoint, method |-> method,
     output_folder |-> output_folder, parameters |-> parameters,
     output_filter |-> output_filter,
     requires_device |-> (requires_device \/ StartsWithDevices(endpoint))]

Playbook(name, api_calls) == [config |-> [name |-> name], api_calls |-> api_calls]

StepInventory ==
    ApiCall("inventory", <<"networks", "devices">>, "getNetworkDevices", "inventory",
            NoParams, <<>>, FALSE)
StepSettings ==
    ApiCall("switch settings", <<"networks", "switch", "settings">>,
            "getNetworkSwitchSettings", "audit", [networkId |-> "static"], <<>>, FALSE)
StepPorts ==
    ApiCall("switch ports", <<"devices", "switch", "ports">>, "getDeviceSwitchPorts",
            "audit", NoParams, <<>>, FALSE)
StepDevice ==
    ApiCall("device info", <<"devices", "info">>, "getDevice", "devinfo",
            [serial |-> "static"], << <<"staticDns", "ip">>, <<"lanIp">> >>, FALSE)
StepLicenses ==
    ApiCall("licenses", <<"organizations", "licenses">>, "getOrganizationLicenses",
            "licenses", NoParams, <<>>, FALSE)
StepMgmt ==
    ApiCall("management", <<"networks", "mgmt">>, "getDeviceManagementInterface",
            "mgmt", NoParams, <<>>, TRUE)

Playbooks == { Playbook("inventory", <<StepInventory>>),
               Playbook("ports", <<StepPorts>>),
               Playbook("audit", <<StepSettings, StepPorts>>),
               Playbook("devices", <<StepPorts, StepDevice>>),
               Playbook("full", <<StepInventory, StepPorts, StepSettings>>),
               Playbook("misc", <<StepLicenses, StepMgmt>>),
               Playbook("mixed", <<StepPorts, StepInventory>>) }

StepBound == SetMax({Len(p.api_calls) : p \in Playbooks})
TargetBound == SetMax({SumLen(f, DOMAIN f) : f \in Fleets} \cup {Len(AllNetworks)})

(***************************************************************************)
(* Progress values, computed as the code computes them (Python floats).    *)
(* The tables hold the formulas of execute and of the two dispatch loops   *)
(* for every argument the model can pass.                                  *)
(***************************************************************************)
StepBaseTable ==
    [n \in 1..StepBound |-> [idx \in 1..n |-> FMul(FDivInt(idx - 1, n), F100)]]

StepDoneTable ==
    [n \in 1..StepBound |-> [idx \in 1..n |-> FMul(FDivInt(idx, n), F100)]]

StepProgressTable ==
    [n \in 1..StepBound |-> [idx \in 1..n |-> [total \in 1..TargetBound |->
        [k \in 1..total |->
            FAdd(StepBaseTable[n][idx], FMul(FDivInt(k, total), FDivInt(100, n)))]]]]

\* step_progress_base = (idx - 1) / total_steps * 100
step_progress_base(idx, total_steps) == StepBaseTable[total_steps][idx]

\* base_progress + (k / total * (100 / len(api_calls)))
step_progress(idx, total_steps, k, total) == StepProgressTable[total_steps][idx][total][k]

\* idx / total_steps * 100
step_done_progress(idx, total_steps) == StepDoneTable[total_steps][idx]

(***************************************************************************)
(* MerakiConnection.select_networks                                        *)
(***************************************************************************)
\* [n for n in self.networks if n['id'] in network_ids]
SelectById(nets, network_ids) == SelectSeq(nets, LAMBDA n : n.id \in network_ids)

DiscoveryParams(network) == [networkId |-> network.id]

\* the devices getNetworkDevices returns for the network
Discover(fl, network) ==
    Response(fl, "networks", "getNetworkDevices", DiscoveryParams(network)).v

\* self.devices[network['id']] = devices
CacheStore(devs, network, found) == (network.id :> found) @@ devs

\* the body of the loop over the selected networks: one discovery call each, the
\* list stored as returned; a failure is logged and the entry left as it was
select_iteration(fl, network, acc, fails) ==
    [devices |-> IF Raises(acc.calls, fails) THEN acc.devices
                 ELSE CacheStore(acc.devices, network, Discover(fl, network)),
     calls |-> Append(acc.calls,
                      Call("networks", "getNetworkDevices", DiscoveryParams(network), 0,
                           acc.calls, fails))]

RECURSIVE select_loop(_, _, _, _, _)
select_loop(fl, sel, i, acc, fails) ==
    IF i > Len(sel) THEN acc
    ELSE select_loop(fl, sel, i + 1, select_iteration(fl, sel[i], acc, fails), fails)

select_networks(fl, nets, devs, network_ids, fails) ==
    select_loop(fl, SelectById(nets, network_ids), 1,
                [devices |-> devs, calls |-> <<>>], fails)

(***************************************************************************)
(* PlaybookExecutor.execute: the preload of the device cache               *)
(***************************************************************************)
\* a variant that fetches every selected network, cached or not
preload_iteration_always(fl, network, acc, fails) ==
    [devices |-> IF Raises(acc.calls, fails) THEN acc.devices
                 ELSE CacheStore(acc.devices, network, WithSerial(Discover(fl, network))),
     calls |-> Append(acc.calls,
                      Call("networks", "getNetworkDevices", DiscoveryParams(network), 0,
                           acc.calls, fails))]

\* the body of the preload loop: a network already in the cache is skipped, the
\* others get one discovery call and the records that have a serial are stored
preload_iteration(fl, network, acc, fails) ==
    IF network.id \in DOMAIN acc.devices THEN acc
    ELSE [devices |-> IF Raises(acc.calls, fails) THEN acc.devices
                      ELSE CacheStore(acc.devices, network,
                                      WithSerial(Discover(fl, network))),
          calls |-> Append(acc.calls,
                           Call("networks", "getNetworkDevices", DiscoveryParams(network),
                                0, acc.calls, fails))]

RECURSIVE preload_loop(_, _, _, _, _)
preload_loop(fl, sel, i, acc, fails) ==
    IF i > Len(sel) THEN acc
    ELSE preload_loop(fl, sel, i + 1, preload_iteration(fl, sel[i], acc, fails), fails)

\* any(step.requires_device for step in api_calls)
AnyRequiresDevice(api_calls) == \E i \in DOMAIN api_calls : api_calls[i].requires_device

\* a variant that fills the cache whatever the playbook's operations are
preload_unconditional(fl, api_calls, sel, devs, fails) ==
    preload_loop(fl, sel, 1, [devices |-> devs, calls |-> <<>>], fails)

preload(fl, api_calls, sel, devs, fails) ==
    IF AnyRequiresDevice(api_calls)
    THEN preload_loop(fl, sel, 1, [devices |-> devs, calls |-> <<>>], fails)
    ELSE [devices |-> devs, calls |-> <<>>]

(***************************************************************************)
(* PlaybookExecutor._execute_network_call                                  *)
(***************************************************************************)
\* a variant whose success record carries no payload
NetworkRecordBare(network, result) ==
    [network |-> network.name, networkId |-> network.id]

NetworkRecord(network, result) ==
    [network |-> network.name, networkId |-> network.id, data |-> result]

\* a variant whose error record also carries a payload
NetworkErrorRecordWithData(network, text) ==
    [network |-> network.name, networkId |-> network.id, error |-> text, data |-> PyNone]

NetworkErrorRecord(network, text) ==
    [network |-> network.name, networkId |-> network.id, error |-> text]

\* the try block for one network: whether the remote call was reached, and the
\* result or the text of the exception
network_try(fl, step, params, raises) ==
    IF step.endpoint[1] # "networks"
    THEN [ok |-> FALSE, called |-> FALSE,
          error |-> "Unsupported network endpoint: " \o Join(step.endpoint, ".")]
    ELSE IF step.method \notin NetworkApiMethods
    THEN [ok |-> FALSE, called |-> FALSE, error |-> NoAttribute(step.method)]
    ELSE IF raises
    THEN [ok |-> FALSE, called |-> TRUE, error |-> ApiErrorText]
    ELSE [ok |-> TRUE, called |-> TRUE,
          result |-> Response(fl, "networks", step.method, params)]

\* one network: the record appended (success or error), the executor's device
\* list written by a device-listing step, the progress update
network_iteration(step, idx, total_steps, network, i, total_networks, params, t, acc, fails) ==
    [results |-> Append(acc.results,
                        IF t.ok THEN NetworkRecord(network, t.result)
                        ELSE NetworkErrorRecord(network, t.error)),
     executor_devices |->
        IF t.ok /\ step.endpoint = <<"networks", "devices">>
        THEN (network.id :> WithSerial(t.result.v)) @@ acc.executor_devices
        ELSE acc.executor_devices,
     calls |-> IF t.called
               THEN Append(acc.calls,
                           Call("networks", step.method, params, idx, acc.calls, fails))
               ELSE acc.calls,
     progress |-> Append(acc.progress, step_progress(idx, total_steps, i, total_networks))]

NetworkParams(step, network) == MergeParams(step.parameters, "networkId", network.id)

RECURSIVE network_loop(_, _, _, _, _, _, _, _)
network_loop(fl, step, idx, total_steps, sel, i, acc, fails) ==
    IF i > Len(sel) THEN acc
    ELSE network_loop(fl, step, idx, total_steps, sel, i + 1,
            network_iteration(step, idx, total_steps, sel[i], i, Len(sel),
                NetworkParams(step, sel[i]),
                network_try(fl, step, NetworkParams(step, sel[i]),
                            Raises(acc.calls, fails)),
                acc, fails),
            fails)

execute_network_call(fl, step, idx, total_steps, sel, exdevs, calls, fails) ==
    network_loop(fl, step, idx, total_steps, sel, 1,
        [results |-> <<>>, executor_devices |-> exdevs, calls |-> calls, progress |-> <<>>],
        fails)

(***************************************************************************)
(* Python dicts whose insertion order is observed                          *)
(***************************************************************************)
\* a Python dict whose insertion order is kept: a list of <<key, value>>
DictHas(d, key) == \E i \in DOMAIN d : d[i][1] = key
DictGet(d, key) == d[CHOOSE i \in DOMAIN d : d[i][1] = key][2]

\* a variant that puts a new key in front of the others
DictSetFront(d, key, value) ==
    IF DictHas(d, key)
    THEN [i \in DOMAIN d |-> IF d[i][1] = key THEN <<key, value>> ELSE d[i]]
    ELSE <<<<key, value>>>> \o d

\* d[key] = value
DictSet(d, key, value) ==
    IF DictHas(d, key)
    THEN [i \in DOMAIN d |-> IF d[i][1] = key THEN <<key, value>> ELSE d[i]]
    ELSE Append(d, <<key, value>>)

(***************************************************************************)
(* ApiCall.filter_response                                                 *)
(***************************************************************************)
\* a variant that keeps the value reached so far when a segment is missing
RECURSIVE WalkKeep(_, _)
WalkKeep(value, parts) ==
    IF parts = <<>> THEN value
    ELSE IF value.t = "dict" /\ Head(parts) \in DOMAIN value.v
    THEN WalkKeep(value.v[Head(parts)], Tail(parts))
    ELSE value

\* for part in field.split('.'): value.get(part) in a dict, else None
RECURSIVE Walk(_, _)
Walk(value, parts) ==
    IF parts = <<>> THEN value
    ELSE IF value.t = "dict"
    THEN (IF Head(parts) \in DOMAIN value.v THEN Walk(value.v[Head(parts)], Tail(parts))
          ELSE Walk(PyNone, Tail(parts)))
    ELSE PyNone

\* the dict a loop of insertions built: its values by key, its keys in order
PyOrderedDict(items) ==
    [t |-> "dict",
     v |-> [key \in {items[i][1] : i \in DOMAIN items} |-> DictGet(items, key)],
     k |-> [i \in DOMAIN items |-> items[i][1]]]

\* the loop over output_filter: filtered_data[field] = value
RECURSIVE filter_loop(_, _, _, _)
filter_loop(output_filter, response, j, filtered_data) ==
    IF j > Len(output_filter) THEN filtered_data
    ELSE filter_loop(output_filter, response, j + 1,
                     DictSet(filtered_data, Join(output_filter[j], "."),
                             Walk(response, output_filter[j])))

filter_response(step, response) ==
    IF step.output_filter = <<>> \/ response.t # "dict" THEN response
    ELSE PyOrderedDict(filter_loop(step.output_filter, response, 1, <<>>))

(***************************************************************************)
(* PlaybookExecutor._execute_device_call                                   *)
(***************************************************************************)
\* self.connection.devices.get(network['id'], [])
CachedDevices(devs, network) == IF network.id \in DOMAIN devs THEN devs[network.id] ELSE <<>>

Pairs(network, network_devices) ==
    [j \in 1..Len(network_devices) |-> <<network, network_devices[j]>>]

RECURSIVE AllDevices(_, _, _)
\* the flattened (network, device) targets, from the cache
AllDevices(sel, devs, i) ==
    IF i > Len(sel) THEN <<>>
    ELSE Pairs(sel[i], CachedDevices(devs, sel[i])) \o AllDevices(sel, devs, i + 1)

\* device.get(key, default)
DevGet(device, key, default) == IF key \in DOMAIN device THEN device[key] ELSE default

DeviceRecord(network, device, data) ==
    [network |-> network.name, networkId |-> network.id,
     deviceName |-> DevGet(device, "name", device.serial),
     deviceSerial |-> device.serial,
     deviceModel |-> DevGet(device, "model", ""),
     deviceType |-> DevGet(device, "productType", ""),
     data |-> data]

DeviceParams(step, device) == MergeParams(step.parameters, "serial", device.serial)

\* a variant that leaves a placeholder record for a target whose call failed
device_iteration_placeholder(fl, step, idx, total_steps, network, device, k, total_devices, acc, fails) ==
    [raised |-> FALSE,
     error |-> "",
     results |-> IF step.method \in DeviceApiMethods /\ ~Raises(acc.calls, fails)
                 THEN Append(acc.results,
                        DeviceRecord(network, device,
                            filter_response(step,
                                Response(fl, "devices", step.method,
                                         DeviceParams(step, device)))))
                 ELSE Append(acc.results,
                        [network |-> network.name, networkId |-> network.id,
                         error |-> ApiErrorText]),
     calls |-> IF step.method \in DeviceApiMethods
               THEN Append(acc.calls,
                           Call("devices", step.method, DeviceParams(step, device), idx,
                                acc.calls, fails))
               ELSE acc.calls,
     progress |-> Append(acc.progress, step_progress(idx, total_steps, k, total_devices))]

\* one target whose record has a serial: the call is made when the devices API
\* has the method; a failure of either is logged and the target skipped
device_iteration(fl, step, idx, total_steps, network, device, k, total_devices, acc, fails) ==
    [raised |-> FALSE,
     error |-> "",
     results |-> IF step.method \in DeviceApiMethods /\ ~Raises(acc.calls, fails)
                 THEN Append(acc.results,
                        DeviceRecord(network, device,
                            filter_response(step,
                                Response(fl, "devices", step.method,
                                         DeviceParams(step, device)))))
                 ELSE acc.results,
     calls |-> IF step.method \in DeviceApiMethods
               THEN Append(acc.calls,
                           Call("devices", step.method, DeviceParams(step, device), idx,
                                acc.calls, fails))
               ELSE acc.calls,
     progress |-> Append(acc.progress, step_progress(idx, total_steps, k, total_devices))]

\* device['serial'] on a record without one raises KeyError in the try block and
\* again in the except handler, so the exception leaves the function
device_raise(acc) == [acc EXCEPT !.raised = TRUE, !.error = KeyErrorSerial]

RECURSIVE device_loop(_, _, _, _, _, _, _, _)
device_loop(fl, step, idx, total_steps, all_devices, k, acc, fails) ==
    IF k > Len(all_devices) THEN acc
    ELSE IF "serial" \notin DOMAIN all_devices[k][2] THEN device_raise(acc)
    ELSE device_loop(fl, step, idx, total_steps, all_devices, k + 1,
            device_iteration(fl, step, idx, total_steps, all_devices[k][1],
                             all_devices[k][2], k, Len(all_devices), acc, fails),
            fails)

\* a variant that treats an empty target list as a failure of the step
execute_device_call_strict(fl, step, idx, total_steps, sel, devs, calls, fails) ==
    IF AllDevices(sel, devs, 1) = <<>>
    THEN [raised |-> TRUE, error |-> "No devices found for API calls", results |-> <<>>,
          calls |-> calls, progress |-> <<>>]
    ELSE device_loop(fl, step, idx, total_steps, AllDevices(sel, devs, 1), 1,
            [raised |-> FALSE, error |-> "", results |-> <<>>, calls |-> calls,
             progress |-> <<>>],
            fails)

\* total_devices == 0 returns the empty list before the loop, which the empty
\* loop gives as well
execute_device_call(fl, step, idx, total_steps, sel, devs, calls, fails) ==
    device_loop(fl, step, idx, total_steps, AllDevices(sel, devs, 1), 1,
        [raised |-> FALSE, error |-> "", results |-> <<>>, calls |-> calls,
         progress |-> <<>>],
        fails)

(***************************************************************************)
(* PlaybookExecutor.execute                                                *)
(***************************************************************************)
StepErrorEntry(step, text) ==
    [error |-> "Failed to execute step " \o step.name \o ": " \o text]

\* a variant without the error entry: the records gathered before the exception
StepResultsPartial(step, r) == r.results

\* what the step leaves in its bucket: the dispatch's records, or the single
\* error entry when an exception left the dispatch
StepResults(step, r) == IF r.raised THEN <<StepErrorEntry(step, r.error)>> ELSE r.results

\* results[step.output_folder] = ...; update_progress(idx / total_steps * 100)
step_finish(step, idx, total_steps, acc, r, exdevs) ==
    [results |-> DictSet(acc.results, step.output_folder, StepResults(step, r)),
     executor_devices |-> exdevs,
     calls |-> r.calls,
     progress |-> acc.progress \o r.progress \o <<step_done_progress(idx, total_steps)>>,
     steps |-> Append(acc.steps,
                      [device_level |-> step.requires_device, raised |-> r.raised,
                       records |-> StepResults(step, r)])]

network_step(step, idx, total_steps, acc, r) ==
    step_finish(step, idx, total_steps, acc,
                [raised |-> FALSE, error |-> "", results |-> r.results, calls |-> r.calls,
                 progress |-> r.progress],
                r.executor_devices)

\* one iteration of the loop over the playbook's steps
execute_step(fl, step, idx, total_steps, sel, devs, acc, fails) ==
    IF step.requires_device
    THEN step_finish(step, idx, total_steps, acc,
             execute_device_call(fl, step, idx, total_steps, sel, devs, acc.calls, fails),
             acc.executor_devices)
    ELSE network_step(step, idx, total_steps, acc,
             execute_network_call(fl, step, idx, total_steps, sel, acc.executor_devices,
                                  acc.calls, fails))

RECURSIVE step_loop(_, _, _, _, _, _, _)
step_loop(fl, api_calls, idx, sel, devs, acc, fails) ==
    IF idx > Len(api_calls) THEN acc
    ELSE step_loop(fl, api_calls, idx + 1, sel, devs,
                   execute_step(fl, api_calls[idx], idx, Len(api_calls), sel, devs, acc,
                                fails),
                   fails)

Names(sel) == [i \in DOMAIN sel |-> sel[i].name]

\* a variant that leaves self.results as the constructor set it
execute_finish_unset(playbook, sel, devs, run, clock) ==
    [devices |-> devs,
     executor_devices |-> run.executor_devices,
     results |-> [k \in {} |-> <<>>],
     calls |-> run.calls,
     progress |-> run.progress,
     steps |-> run.steps]

\* self.results = {'metadata': ..., 'results': results}; the execute reads the
\* clock three times: before the preload (start_time), after the last step
\* for the time the run took, and once more for end_time
execute_finish(playbook, sel, devs, run, clock) ==
    [devices |-> devs,
     executor_devices |-> run.executor_devices,
     results |-> [metadata |-> [playbook_name |-> playbook.config.name,
                                start_time |-> isoformat(clock[1]),
                                end_time |-> isoformat(clock[3]),
                                execution_time_seconds |-> total_seconds(clock[2] - clock[1]),
                                networks |-> Names(sel)],
                  results |-> run.results],
     calls |-> run.calls,
     progress |-> run.progress,
     steps |-> run.steps]

execute_steps(fl, playbook, sel, exdevs, pre, fails, clock) ==
    execute_finish(playbook, sel, pre.devices,
        step_loop(fl, playbook.api_calls, 1, sel, pre.devices,
            [results |-> <<>>, executor_devices |-> exdevs, calls |-> pre.calls,
             progress |-> <<FZero>>, steps |-> <<>>],
            fails),
        clock)

execute(fl, playbook, sel, devs, exdevs, fails, clock) ==
    execute_steps(fl, playbook, sel, exdevs,
                  preload(fl, playbook.api_calls, sel, devs, fails), fails, clock)

(***************************************************************************)
(* MerakiConnection.load_networks, with one organisation                   *)
(***************************************************************************)
OrgCalls(fails) ==
    << Call("organizations", "getOrganizations", NoParams, 0, <<>>, fails),
       Call("organizations", "getOrganizationNetworks", [organizationId |-> "O1"], 0,
            <<1>>, fails) >>

\* except meraki.APIError as e: raise ConnectionError(f"Failed to load networks: {e}")
LoadNetworksFailed == "Failed to load networks: " \o ApiErrorText

load_networks(nets, fails) ==
    IF 1 \in fails
    THEN [networks |-> nets, calls |-> SubSeq(OrgCalls(fails), 1, 1),
          raised |-> LoadNetworksFailed]
    ELSE IF 2 \in fails
    THEN [networks |-> nets, calls |-> OrgCalls(fails),
          raised |-> LoadNetworksFailed]
    ELSE [networks |-> AllNetworks, calls |-> OrgCalls(fails), raised |-> ""]

(***************************************************************************)
(* ReportGenerator.generate_report.  What the report puts on disk is the    *)
(* list, in order, of the directories it makes and the files it writes,    *)
(* with their paths below the base directory; a CSV file is its header     *)
(* (the set of column names) and its rows.  The report reads the clock for *)
(* the name of its directory, for the name of its log and then, for every  *)
(* bucket that has rows, for the timestamp column and for the name of the  *)
(* CSV file.  The report works on self.executor.results itself: what it    *)
(* returns holds the results as its statements leave them.                 *)
(***************************************************************************)

ReportTypes == {"csv", "json"}
ReportNames == {"weekly"}

KeyErrorNetwork == "'network'"

\* the row starts with the common device info
CommonColumns(result) ==
    [network |-> result.network,
     deviceName |-> DevGet(result, "deviceName", ""),
     deviceSerial |-> DevGet(result, "deviceSerial", ""),
     deviceModel |-> DevGet(result, "deviceModel", ""),
     deviceType |-> DevGet(result, "deviceType", "")]

\* the fields copied into the row: those of a dict, those of the first element
\* of a list (the elements of the lists of this model are dicts), else none
PayloadFields(data) ==
    IF data.t = "dict" THEN data.v
    ELSE IF data.t = "list" /\ Len(data.v) > 0 THEN data.v[1]
    ELSE [k \in {} |-> ""]

\* a variant that fills the fields into the record itself
flatten_record_in_place(result) ==
    [row |-> PayloadFields(result.data) @@ CommonColumns(result),
     result |-> PayloadFields(result.data) @@ CommonColumns(result) @@ result]

\* flat_result is a new dict: flat_result[key] = value for the payload's
\* fields, over the common ones; the record is read and stays as it is
flatten_record(result) ==
    [row |-> PayloadFields(result.data) @@ CommonColumns(result), result |-> result]

\* the loop over the records of a bucket: an error record is logged with its
\* network name and gives no row; result['network'] raises KeyError on an
\* entry without one.  data is the list of the bucket as the loop leaves it
RECURSIVE flatten_loop(_, _, _)
flatten_loop(data, i, acc) ==
    IF i > Len(data) THEN acc
    ELSE IF "error" \in DOMAIN data[i]
    THEN (IF "network" \in DOMAIN data[i]
          THEN flatten_loop(data, i + 1, [acc EXCEPT !.data = Append(@, data[i])])
          ELSE [acc EXCEPT !.raised = KeyErrorNetwork,
                           !.data = @ \o SubSeq(data, i, Len(data))])
    ELSE flatten_loop(data, i + 1,
                      [acc EXCEPT !.rows = Append(@, flatten_record(data[i]).row),
                                  !.data = Append(@, flatten_record(data[i]).result)])

flatten(data) == flatten_loop(data, 1, [raised |-> "", rows |-> <<>>, data |-> <<>>])

\* the columns of pd.DataFrame(rows): every key of every row
Columns(rows) == UNION {DOMAIN rows[j] : j \in DOMAIN rows}

\* df['timestamp'] = datetime.now().isoformat()
WithTimestamp(rows, column) ==
    [j \in DOMAIN rows |-> [timestamp |-> isoformat(column)] @@ rows[j]]

Directory(path) == [kind |-> "dir", path |-> path]

CsvFile(report_dir, folder, rows, column, csv) ==
    [kind |-> "csv",
     path |-> report_dir \o <<folder, folder \o "_" \o strftime(csv) \o ".csv">>,
     header |-> Columns(WithTimestamp(rows, column)),
     rows |-> WithTimestamp(rows, column)]

SchemaFile(report_dir, folder, rows, column) ==
    [kind |-> "schema", path |-> report_dir \o <<folder, "schema.json">>,
     columns |-> Columns(WithTimestamp(rows, column))]

\* bucket b: its folder, and the CSV with its schema when there are rows; read
\* counts the readings of the clock taken so far
bucket_report(report_dir, b, folder, flat, acc, clock) ==
    [raised |-> flat.raised,
     returned |-> report_dir,
     read |-> IF flat.raised = "" /\ flat.rows # <<>> THEN acc.read + 2 ELSE acc.read,
     results |-> [acc.results EXCEPT !.results[b] = <<folder, flat.data>>],
     files |-> acc.files \o <<Directory(report_dir \o <<folder>>)>>
               \o (IF flat.raised = "" /\ flat.rows # <<>>
                   THEN <<CsvFile(report_dir, folder, flat.rows,
                                  clock[acc.read + 1], clock[acc.read + 2]),
                          SchemaFile(report_dir, folder, flat.rows, clock[acc.read + 1])>>
                   ELSE <<>>)]

RECURSIVE report_loop(_, _, _, _, _)
report_loop(report_dir, buckets, b, acc, clock) ==
    IF b > Len(buckets) \/ acc.raised # "" THEN acc
    ELSE report_loop(report_dir, buckets, b + 1,
                     bucket_report(report_dir, b, buckets[b][1], flatten(buckets[b][2]),
                                   acc, clock),
                     clock)

\* DirectoryManager.__init__: the playbooks and the reports directory are made,
\* each left alone when it is there already
ensure_directories == <<Directory(<<"playbooks">>), Directory(<<"reports">>)>>

\* DirectoryManager.create_report_directory: the path below the base directory,
\* named after the second the clock shows at t; the directory is made, and left
\* alone when it is there already
create_report_directory(report_name, t) ==
    <<"reports", report_name \o "_" \o strftime(t)>>

\* what the report makes before it turns to the buckets, in order
ReportStart(report_dir, res, log) ==
    [raised |-> "",
     returned |-> report_dir,
     read |-> 2,
     results |-> res,
     files |-> ensure_directories
               \o << Directory(report_dir),
                     [kind |-> "metadata", path |-> report_dir \o <<"metadata.json">>,
                      content |-> res.metadata],
                     [kind |-> "log",
                      path |-> report_dir
                               \o <<"execution_log_" \o strftime(log) \o ".txt">>] >>]

generate_csv_report(res, report_name, clock) ==
    report_loop(create_report_directory(report_name, clock[1]), res.results, 1,
                ReportStart(create_report_directory(report_name, clock[1]), res, clock[2]),
                clock)

\* a variant without the check of the results
generate_report_unchecked(res, report_type, report_name, clock) ==
    IF DOMAIN res = {}
    THEN [raised |-> "",
          returned |-> create_report_directory(report_name, clock[1]),
          read |-> 1, results |-> res,
          files |-> ensure_directories
                    \o <<Directory(create_report_directory(report_name, clock[1]))>>]
    ELSE IF report_type = "csv" THEN generate_csv_report(res, report_name, clock)
    ELSE [raised |-> "Unsupported report type: " \o report_type, returned |-> <<>>,
          read |-> 0, results |-> res, files |-> <<>>]

generate_report(res, report_type, report_name, clock) ==
    IF DOMAIN res = {}
    THEN [raised |-> "No results to generate report from", returned |-> <<>>,
          read |-> 0, results |-> res, files |-> <<>>]
    ELSE IF report_type = "csv" THEN generate_csv_report(res, report_name, clock)
    ELSE [raised |-> "Unsupported report type: " \o report_type, returned |-> <<>>,
          read |-> 0, results |-> res, files |-> <<>>]

(***************************************************************************)
(* The playbook file model (playbook.py): Playbook.load and                *)
(* Playbook.validate on the object tree yaml.safe_load gives.  A mapping   *)
(* of the tree is a function on the keys it has; null is PyNone; an        *)
(* endpoint is the list of its segments, the empty string the empty list.  *)
(***************************************************************************)
\* d.get(key, default)
Get(d, key, default) == IF key \in DOMAIN d THEN d[key] ELSE default

NoKeys == [k \in {} |-> ""]

\* PlaybookConfig.__init__
PlaybookConfig(data) ==
    [name |-> Get(data, "name", ""), description |-> Get(data, "description", ""),
     version |-> Get(data, "version", "1.0"), author |-> Get(data, "author", "")]

\* the ApiCall built for one entry of api_calls
load_call(call, api_data) ==
    [name |-> Get(call, "name", ""),
     endpoint |-> Get(api_data, "endpoint", <<>>),
     method |-> Get(api_data, "method", ""),
     filters |-> Get(api_data, "filters", NoKeys),
     output |-> Get(call, "output", ""),
     requires_device |-> Get(api_data, "requires_device", FALSE)]

\* str(e) of the AttributeError of None.get(...)
NoneHasNoGet == "'NoneType' object has no attribute 'get'"

\* the loop over the entries of api_calls: call.get raises on a null entry and
\* api_data.get on a null api, the calls appended before stay in the list
RECURSIVE load_calls(_, _, _)
load_calls(calls, i, acc) ==
    IF i > Len(calls) THEN [raised |-> "", api_calls |-> acc]
    ELSE IF calls[i] = PyNone THEN [raised |-> NoneHasNoGet, api_calls |-> acc]
    ELSE IF Get(calls[i], "api", NoKeys) = PyNone
    THEN [raised |-> NoneHasNoGet, api_calls |-> acc]
    ELSE load_calls(calls, i + 1,
                    Append(acc, load_call(calls[i], Get(calls[i], "api", NoKeys))))

\* Playbook.__init__: config is None (<<>>), api_calls is []
NewPlaybook == [config |-> <<>>, api_calls |-> <<>>]

\* except Exception as e: raise ValueError(f"Failed to load playbook: {e}")
load_raised(text) == IF text = "" THEN "" ELSE "Failed to load playbook: " \o text

\* the playbook once the config is set and the loop has ended or raised
load_config(config, l) ==
    [raised |-> load_raised(l.raised),
     playbook |-> [config |-> <<config>>, api_calls |-> l.api_calls]]

\* Playbook.load: a null config makes PlaybookConfig raise before self.config
\* is assigned
load(data) ==
    IF Get(data, "config", NoKeys) = PyNone
    THEN [raised |-> load_raised(NoneHasNoGet), playbook |-> NewPlaybook]
    ELSE load_config(PlaybookConfig(Get(data, "config", NoKeys)),
                     load_calls(Get(data, "api_calls", <<>>), 1, <<>>))

\* all([call.name, call.endpoint, call.method, call.output])
CallComplete(call) ==
    call.name # "" /\ call.endpoint # <<>> /\ call.method # "" /\ call.output # ""

\* Playbook.validate
validate(playbook) ==
    IF playbook.config = <<>> \/ playbook.api_calls = <<>> THEN FALSE
    ELSE \A i \in DOMAIN playbook.api_calls : CallComplete(playbook.api_calls[i])

(***************************************************************************)
(* Playbook.from_yaml of core.py, and PlaybookExecutor.load_playbook       *)
(***************************************************************************)
\* ApiCall.from_dict
from_dict(call, api_data) ==
    ApiCall(Get(call, "name", ""), Get(api_data, "endpoint", <<>>),
            Get(api_data, "method", ""), Get(call, "output", ""),
            Get(api_data, "parameters", NoParams), Get(api_data, "output_filter", <<>>),
            Get(api_data, "requires_device", FALSE))

\* [ApiCall.from_dict(call) for call in ...]: data.get raises on a null entry
\* and api_data.get on a null api
RECURSIVE from_dicts(_, _, _)
from_dicts(calls, i, acc) ==
    IF i > Len(calls) THEN [raised |-> "", api_calls |-> acc]
    ELSE IF calls[i] = PyNone THEN [raised |-> NoneHasNoGet, api_calls |-> acc]
    ELSE IF Get(calls[i], "api", NoKeys) = PyNone
    THEN [raised |-> NoneHasNoGet, api_calls |-> acc]
    ELSE from_dicts(calls, i + 1,
                    Append(acc, from_dict(calls[i], Get(calls[i], "api", NoKeys))))

\* except Exception as e: raise ValueError(f"Invalid playbook format: {e}")
InvalidFormat(text) == "Invalid playbook format: " \o text

\* cls(config=config, api_calls=api_calls) when the list was built
from_yaml_built(name, l) ==
    IF l.raised # "" THEN [raised |-> InvalidFormat(l.raised), playbook |-> <<>>]
    ELSE [raised |-> "", playbook |-> <<Playbook(name, l.api_calls)>>]

\* Playbook.from_yaml: a null config makes PlaybookConfig.from_dict raise
from_yaml(data) ==
    IF Get(data, "config", NoKeys) = PyNone
    THEN [raised |-> InvalidFormat(NoneHasNoGet), playbook |-> <<>>]
    ELSE from_yaml_built(Get(Get(data, "config", NoKeys), "name", ""),
                         from_dicts(Get(data, "api_calls", <<>>), 1, <<>>))

\* a variant that builds the playbook with from_yaml and sets it unvalidated
load_playbook_unchecked(current, data) ==
    [raised |-> from_yaml(data).raised,
     current_playbook |-> IF from_yaml(data).raised = "" THEN from_yaml(data).playbook
                          ELSE current]

MissingArgument == "Playbook.__init__() missing 1 required positional argument: 'api_calls'"

\* Playbook(playbook_path): in core.py the name is bound to the class defined at
\* the end of core.py, whose constructor takes config and api_calls; the call
\* raises TypeError before load, validate and the assignment are reached
load_playbook(current, data) == [raised |-> MissingArgument, current_playbook |-> current]

\* the playbook files of the session: a well-formed one, and one whose second
\* operation has no output
ProbeCall == [name |-> "probe", output |-> "probe",
              api |-> [endpoint |-> <<"networks", "devices">>, method |-> "getNetworkDevices"]]

PlaybookFiles ==
    { [config |-> [name |-> "probe"], api_calls |-> <<ProbeCall>>],
      [config |-> [name |-> "probe"],
       api_calls |-> <<ProbeCall, [name |-> "rogue", api |-> ProbeCall.api]>>] }

(***************************************************************************)
(* MerakiConnection.authenticate: one call, and False in place of the      *)
(* exception when it raises                                                *)
(***************************************************************************)
authenticate(fails) ==
    [calls |-> <<Call("organizations", "getOrganizations", NoParams, 0, <<>>, fails)>>,
     returned |-> 1 \notin fails]

(***************************************************************************)
(* The Execute button of the window (gui.py, execute_playbook), for a      *)
(* playbook selected in the list: the device filter, then load_playbook,   *)
(* execute and generate_report inside one try block.                       *)
(***************************************************************************)
DeviceTypes == {"all", "switch"}

UnhashableDict == "unhashable type: 'dict'"

Failed(text) == "Failed to execute playbook: " \o text

\* with a device type chosen, the loop over connection.selected_networks: its
\* items are the network records, the first is passed as networkId, and the
\* assignment to connection.devices under that record raises TypeError when
\* the call has not raised; the loop is outside the try block
filter_devices(sel, filtered_type, fails) ==
    IF filtered_type = "all" \/ sel = <<>>
    THEN [raised |-> "", calls |-> <<>>]
    ELSE [raised |-> IF 1 \in fails THEN ApiErrorText ELSE UnhashableDict,
          calls |-> <<Call("networks", "getNetworkDevices", [networkId |-> sel[1]], 0,
                           <<>>, fails)>>]

\* the callback left by the exception of the device filter
callback_raised(f, current, devs, exdevs, res, progress, steps) ==
    [raised |-> f.raised, shown |-> "", current_playbook |-> current, devices |-> devs,
     executor_devices |-> exdevs, results |-> res, calls |-> f.calls,
     progress |-> progress, steps |-> steps, files |-> <<>>, read |-> 0]

\* except Exception around load_playbook: the message box, status "Failed"
callback_load_failed(loaded, devs, exdevs, res, progress, steps) ==
    [raised |-> "", shown |-> Failed(loaded.raised),
     current_playbook |-> loaded.current_playbook, devices |-> devs,
     executor_devices |-> exdevs, results |-> res, calls |-> <<>>,
     progress |-> progress, steps |-> steps, files |-> <<>>, read |-> 0]

\* execute has returned and generate_report('csv', playbook_name) has returned
\* the path of the report, which the Success box shows, or raised into the
\* except clause
callback_reported(loaded, run, report) ==
    [raised |-> "",
     shown |-> IF report.raised = ""
               THEN "Playbook executed successfully!\nReport saved to: "
                    \o Join(report.returned, "/")
               ELSE Failed(report.raised),
     current_playbook |-> loaded.current_playbook, devices |-> run.devices,
     executor_devices |-> run.executor_devices, results |-> report.results,
     calls |-> run.calls, progress |-> run.progress, steps |-> run.steps,
     files |-> report.files, read |-> 3 + report.read]

\* the report reads the clock after the three readings of the execute
callback_run(loaded, run, playbook_name, clock) ==
    callback_reported(loaded, run,
                      generate_report(run.results, "csv", playbook_name, Later(clock, 3)))

callback_try(fl, sel, devs, exdevs, res, progress, steps, loaded, playbook_name, clock, fails) ==
    IF loaded.raised # ""
    THEN callback_load_failed(loaded, devs, exdevs, res, progress, steps)
    ELSE callback_run(loaded,
                      execute(fl, loaded.current_playbook[1], sel, devs, exdevs, fails,
                              clock),
                      playbook_name, clock)

callback_filtered(fl, sel, devs, exdevs, current, res, progress, steps, f, data, playbook_name, clock, fails) ==
    IF f.raised # ""
    THEN callback_raised(f, current, devs, exdevs, res, progress, steps)
    ELSE callback_try(fl, sel, devs, exdevs, res, progress, steps,
                      load_playbook(current, data), playbook_name, clock, fails)

execute_playbook(fl, sel, devs, exdevs, current, res, progress, steps, filtered_type, data, playbook_name, clock, fails) ==
    callback_filtered(fl, sel, devs, exdevs, current, res, progress, steps,
                      filter_devices(sel, filtered_type, fails),
                      data, playbook_name, clock, fails)

(***************************************************************************)
(* The window itself (gui.py, AuditorGUI): setup_ui, which run() calls     *)
(* once initialize_connection has returned True, and the command of the    *)
(* Export Device Inventory button.  The window keeps its own list          *)
(* selected_networks beside the connection's.                              *)
(***************************************************************************)
\* AuditorGUI.__init__: self.selected_networks = [], assigned nowhere else
gui_selected_networks == <<>>

\* [network for network in self.networks if network['id'] in self.selected_networks]
Ticked(nets, ids) == SelectSeq(nets, LAMBDA n : \E k \in DOMAIN ids : ids[k] = n.id)

DevicesCall(network, calls, fails) ==
    Call("networks", "getNetworkDevices", [networkId |-> network.id], 0, calls, fails)

\* the loop that fills the tree: one call per ticked network, an exception
\* becomes a line of the tree
RECURSIVE tree_calls(_, _, _, _)
tree_calls(nets, i, calls, fails) ==
    IF i > Len(nets) THEN calls
    ELSE tree_calls(nets, i + 1, Append(calls, DevicesCall(nets[i], calls, fails)), fails)

\* the values of the device type box: one call per loaded network outside any
\* try block, the first that raises leaves setup_ui
RECURSIVE type_calls(_, _, _, _)
type_calls(nets, i, calls, fails) ==
    IF i > Len(nets) THEN [raised |-> "", calls |-> calls]
    ELSE IF Raises(calls, fails)
    THEN [raised |-> ApiErrorText, calls |-> Append(calls, DevicesCall(nets[i], calls, fails))]
    ELSE type_calls(nets, i + 1, Append(calls, DevicesCall(nets[i], calls, fails)), fails)

\* dir_manager = DirectoryManager() once the panels are built
setup_ui_listed(c) ==
    [raised |-> c.raised, calls |-> c.calls,
     files |-> IF c.raised = "" THEN ensure_directories ELSE <<>>]

setup_ui(nets, ids, fails) ==
    setup_ui_listed(type_calls(nets, 1, tree_calls(Ticked(nets, ids), 1, <<>>, fails), fails))

\* device['networkName'] = network['name']; device['networkId'] = network['id']
inventory_rows(network, devs) ==
    [k \in DOMAIN devs |-> [networkName |-> network.name, networkId |-> network.id] @@ devs[k]]

\* the loop over the ticked networks: a call that raises is shown and the loop
\* goes on
RECURSIVE inventory(_, _, _, _, _)
inventory(fl, nets, i, acc, fails) ==
    IF i > Len(nets) THEN acc
    ELSE IF Raises(acc.calls, fails)
    THEN inventory(fl, nets, i + 1,
                   [calls |-> Append(acc.calls, DevicesCall(nets[i], acc.calls, fails)),
                    shown |-> Append(acc.shown, "Failed to get devices for network "
                                                \o nets[i].name \o ": " \o ApiErrorText),
                    all_devices |-> acc.all_devices],
                   fails)
    ELSE inventory(fl, nets, i + 1,
                   [calls |-> Append(acc.calls, DevicesCall(nets[i], acc.calls, fails)),
                    shown |-> acc.shown,
                    all_devices |-> acc.all_devices \o inventory_rows(nets[i], fl[nets[i].id])],
                   fails)

\* df.to_csv(report_path / f'device_inventory_{timestamp}.csv') when a device
\* was found, the warning when none was
inventory_written(report_path, inv, timestamp) ==
    IF inv.all_devices = <<>>
    THEN [shown |-> Append(inv.shown, "No devices found in selected networks"), calls |-> inv.calls,
          files |-> ensure_directories \o <<Directory(report_path)>>]
    ELSE [shown |-> Append(inv.shown, "Device inventory exported to:\n"
                               \o Join(report_path, "/") \o "/device_inventory_"
                               \o strftime(timestamp) \o ".csv"),
          calls |-> inv.calls,
          files |-> ensure_directories
                    \o << Directory(report_path),
                          [kind |-> "csv",
                           path |-> report_path \o <<"device_inventory_"
                                                     \o strftime(timestamp) \o ".csv">>,
                           header |-> Columns(inv.all_devices),
                           rows |-> inv.all_devices] >>]

\* the export reads the clock for the name of the CSV file and then, in
\* create_report_directory, for the name of the directory
export_device_inventory(fl, nets, ids, clock, fails) ==
    inventory_written(create_report_directory("device_inventory", clock[2]),
                      inventory(fl, Ticked(nets, ids), 1,
                                [calls |-> <<>>, shown |-> <<>>, all_devices |-> <<>>],
                                fails),
                      clock[1])

(***************************************************************************)
(* The state machine                                                       *)
(***************************************************************************)
EmptyDict == [k \in {} |-> <<>>]

\* the patterns of failing remote calls among the first n calls of an operation
FailSets(n) == {F \in SUBSET (1..n) : Cardinality(F) <= MaxFailures}

\* the remote calls the operation issues when none of them raises
CallCount(r) == Len(r.calls)

\* a clock that stands still, to see how often an operation reads it: three
\* readings of an execute, two of a report and two more for each bucket
StillClock == [i \in 1..(5 + 2 * StepBound) |-> 3000000]

NoProbe == [fn |-> "none"]

Init ==
    /\ fleet \in Fleets
    /\ networks = <<>>
    /\ selected_networks = <<>>
    /\ devices = EmptyDict
    /\ executor_devices = EmptyDict
    /\ current_playbook = <<>>
    /\ results = EmptyDict
    /\ callLog = <<>>
    /\ progressLog = <<>>
    /\ stepLog = <<>>
    /\ lastOp = [op |-> "init", raised |-> ""]
    /\ ops = 0
    /\ written = <<>>
    /\ probe = NoProbe

AuthenticateDone(r) ==
    /\ callLog' = r.calls
    /\ lastOp' = [op |-> "authenticate", raised |-> "", returned |-> r.returned]
    /\ written' = <<>>
    /\ UNCHANGED <<fleet, networks, selected_networks, devices, executor_devices,
                   current_playbook, results, progressLog, stepLog, ops, probe>>

\* the session authenticates once, when it connects
Authenticate ==
    /\ lastOp.op = "init"
    /\ \E fails \in FailSets(1) : AuthenticateDone(authenticate(fails))

LoadNetworksDone(r) ==
    /\ networks' = r.networks
    /\ callLog' = r.calls
    /\ lastOp' = [op |-> "load_networks", raised |-> r.raised]
    /\ written' = <<>>
    /\ UNCHANGED <<fleet, selected_networks, devices, executor_devices,
                   current_playbook, results, progressLog, stepLog, ops, probe>>

\* the session loads the organisation's networks once, when it connects
LoadNetworks ==
    /\ networks = <<>>
    /\ \E fails \in FailSets(2) : LoadNetworksDone(load_networks(networks, fails))

SelectNetworksDone(sel, r) ==
    /\ selected_networks' = sel
    /\ devices' = r.devices
    /\ callLog' = r.calls
    /\ lastOp' = [op |-> "select_networks", raised |-> ""]
    /\ ops' = ops + 1
    /\ written' = <<>>
    /\ UNCHANGED <<fleet, networks, executor_devices, current_playbook,
                   results, progressLog, stepLog, probe>>

SelectNetworks ==
    /\ ops < MaxOps
    /\ \E network_ids \in SUBSET NetworkIds :
       \E fails \in FailSets(Len(SelectById(networks, network_ids))) :
           SelectNetworksDone(SelectById(networks, network_ids),
                              select_networks(fleet, networks, devices, network_ids, fails))

\* executor.current_playbook = Playbook(config, api_calls), while the session
\* has an operation left to run it
SetPlaybook ==
    \E p \in Playbooks :
        /\ ops < MaxOps
        /\ current_playbook' = <<p>>
        /\ callLog' = <<>>
        /\ lastOp' = [op |-> "set_playbook", raised |-> ""]
        /\ written' = <<>>
        /\ UNCHANGED <<fleet, networks, selected_networks, devices, executor_devices,
                       results, progressLog, stepLog, ops, probe>>

ExecuteDone(r) ==
    /\ devices' = r.devices
    /\ executor_devices' = r.executor_devices
    /\ results' = r.results
    /\ callLog' = r.calls
    /\ progressLog' = r.progress
    /\ stepLog' = r.steps
    /\ lastOp' = [op |-> "execute", raised |-> ""]
    /\ ops' = ops + 1
    /\ written' = <<>>
    /\ UNCHANGED <<fleet, networks, selected_networks, current_playbook, probe>>

Execute ==
    /\ ops < MaxOps
    /\ current_playbook # <<>>
    /\ \E fails \in FailSets(CallCount(execute(fleet, current_playbook[1],
                                 selected_networks, devices, executor_devices, {},
                                 StillClock))) :
       \E clock \in Readings(3) :
           ExecuteDone(execute(fleet, current_playbook[1], selected_networks, devices,
                               executor_devices, fails, clock))

\* execute with no playbook loaded raises ValueError before any work
ExecuteNoPlaybook ==
    /\ ops < MaxOps
    /\ current_playbook = <<>>
    /\ callLog' = <<>>
    /\ lastOp' = [op |-> "execute", raised |-> "No playbook loaded"]
    /\ ops' = ops + 1
    /\ written' = <<>>
    /\ UNCHANGED <<fleet, networks, selected_networks, devices, executor_devices,
                   current_playbook, results, progressLog, stepLog, probe>>

LoadPlaybookDone(data, r) ==
    /\ current_playbook' = r.current_playbook
    /\ callLog' = <<>>
    /\ lastOp' = [op |-> "load_playbook", raised |-> r.raised, file |-> data]
    /\ ops' = ops + 1
    /\ written' = <<>>
    /\ UNCHANGED <<fleet, networks, selected_networks, devices, executor_devices,
                   results, progressLog, stepLog, probe>>

\* executor.load_playbook(playbook_path)
LoadPlaybook ==
    /\ ops < MaxOps
    /\ \E data \in PlaybookFiles : LoadPlaybookDone(data, load_playbook(current_playbook, data))

ExecutePlaybookDone(r) ==
    /\ current_playbook' = r.current_playbook
    /\ devices' = r.devices
    /\ executor_devices' = r.executor_devices
    /\ results' = r.results
    /\ callLog' = r.calls
    /\ progressLog' = r.progress
    /\ stepLog' = r.steps
    /\ written' = r.files
    /\ lastOp' = [op |-> "execute_playbook", raised |-> r.raised, shown |-> r.shown]
    /\ ops' = ops + 1
    /\ UNCHANGED <<fleet, networks, selected_networks, probe>>

\* a click on Execute with a playbook selected in the list; the report is named
\* after the playbook file
ExecutePlaybook ==
    /\ ops < MaxOps
    /\ \E filtered_type \in DeviceTypes, data \in PlaybookFiles,
          playbook_name \in ReportNames :
          \E fails \in FailSets(CallCount(execute_playbook(fleet, selected_networks,
                            devices, executor_devices, current_playbook, results,
                            progressLog, stepLog, filtered_type, data, playbook_name,
                            StillClock, {}))) :
          \E clock \in Readings(execute_playbook(fleet, selected_networks,
                            devices, executor_devices, current_playbook, results,
                            progressLog, stepLog, filtered_type, data, playbook_name,
                            StillClock, fails).read) :
              ExecutePlaybookDone(execute_playbook(fleet, selected_networks, devices,
                            executor_devices, current_playbook, results, progressLog,
                            stepLog, filtered_type, data, playbook_name, clock, fails))

SetupUiDone(r) ==
    /\ callLog' = r.calls
    /\ written' = r.files
    /\ lastOp' = [op |-> "setup_ui", raised |-> r.raised]
    /\ ops' = ops + 1
    /\ UNCHANGED <<fleet, networks, selected_networks, devices, executor_devices,
                   current_playbook, results, progressLog, stepLog, probe>>

\* run(): the window is built when initialize_connection has selected at
\* least one network
SetupUi ==
    /\ ops < MaxOps
    /\ lastOp.op = "select_networks"
    /\ selected_networks # <<>>
    /\ \E fails \in FailSets(CallCount(setup_ui(networks, gui_selected_networks, {}))) :
           SetupUiDone(setup_ui(networks, gui_selected_networks, fails))

ExportDeviceInventoryDone(r) ==
    /\ callLog' = r.calls
    /\ written' = r.files
    /\ lastOp' = [op |-> "export_device_inventory", raised |-> "", shown |-> r.shown]
    /\ ops' = ops + 1
    /\ UNCHANGED <<fleet, networks, selected_networks, devices, executor_devices,
                   current_playbook, results, progressLog, stepLog, probe>>

\* a click on Export Device Inventory in the window of a session that has
\* selected networks
ExportDeviceInventory ==
    /\ ops < MaxOps
    /\ selected_networks # <<>>
    /\ \E clock \in Readings(2) :
       \E fails \in FailSets(CallCount(export_device_inventory(fleet, networks,
                                   gui_selected_networks, clock, {}))) :
           ExportDeviceInventoryDone(export_device_inventory(fleet, networks,
                                   gui_selected_networks, clock, fails))

GenerateReportDone(r) ==
    /\ written' = r.files
    /\ results' = r.results
    /\ callLog' = <<>>
    /\ lastOp' = [op |-> "generate_report", raised |-> r.raised]
    /\ UNCHANGED <<fleet, networks, selected_networks, devices, executor_devices,
                   current_playbook, progressLog, stepLog, ops, probe>>

GenerateReport ==
    /\ \E report_type \in ReportTypes, report_name \in ReportNames :
       \E clock \in Readings(generate_report(results, report_type, report_name,
                                              StillClock).read) :
           GenerateReportDone(generate_report(results, report_type, report_name, clock))

Next ==
    \/ Authenticate
    \/ LoadNetworks
    \/ SelectNetworks
    \/ SetPlaybook
    \/ LoadPlaybook
    \/ Execute
    \/ ExecuteNoPlaybook
    \/ GenerateReport
    \/ ExecutePlaybook
    \/ SetupUi
    \/ ExportDeviceInventory

Spec == Init /\ [][Next]_vars

(***************************************************************************)
(* Reading the state an execute leaves behind                              *)
(***************************************************************************)
\* the last operation was an execute that ran to its end
Executed == lastOp.op = "execute" /\ lastOp.raised = ""

ApiCalls == current_playbook[1].api_calls

\* the remote calls of step i of the last execute; step 0 is the preload
StepCalls(i) == SelectSeq(callLog, LAMBDA c : c.step = i)

FailedAt(calls) == {k \in DOMAIN calls : ~calls[k].ok}

DiscoveryCalls(calls, id) ==
    SelectSeq(calls, LAMBDA c : c.method = "getNetworkDevices" /\ c.params.networkId = id)

NetworkSteps == {i \in DOMAIN stepLog : ~stepLog[i].device_level}
DeviceSteps == {i \in DOMAIN stepLog : stepLog[i].device_level}

\* the step reaches the remote call for every network
Dispatchable(step) == step.endpoint[1] = "networks" /\ step.method \in NetworkApiMethods

\* the (network, device) targets of the device-level steps of the last execute
Targets == AllDevices(selected_networks, devices, 1)

RemoveAt(s, k) == SubSeq(s, 1, k - 1) \o SubSeq(s, k + 1, Len(s))

(***************************************************************************)
(* C1: a network-level step returns exactly one record per selected        *)
(* network, in the order of the selection; the record of a network whose   *)
(* call raised carries the network's name and an error string and no data, *)
(* and the networks after it are still called.                             *)
(***************************************************************************)
C1_RecordFor(rec, network) ==
    /\ rec.network = network.name
    /\ rec.networkId = network.id

C1_StepOk(i) ==
    /\ ~stepLog[i].raised
    /\ Len(stepLog[i].records) = Len(selected_networks)
    /\ \A j \in DOMAIN stepLog[i].records :
          C1_RecordFor(stepLog[i].records[j], selected_networks[j])
    /\ Dispatchable(ApiCalls[i]) =>
          /\ Len(StepCalls(i)) = Len(selected_networks)
          /\ \A j \in DOMAIN selected_networks :
                /\ StepCalls(i)[j].params.networkId = selected_networks[j].id
                /\ IF StepCalls(i)[j].ok
                   THEN DOMAIN stepLog[i].records[j] = {"network", "networkId", "data"}
                   ELSE /\ DOMAIN stepLog[i].records[j] = {"network", "networkId", "error"}
                        /\ stepLog[i].records[j].error = ApiErrorText

C1_OneRecordPerNetwork == Executed => \A i \in NetworkSteps : C1_StepOk(i)

\* a network-level step whose first network failed and whose second was called
C1_Witness ==
    /\ Executed
    /\ \E i \in NetworkSteps :
          /\ Len(StepCalls(i)) = 2
          /\ ~StepCalls(i)[1].ok
          /\ StepCalls(i)[2].ok
          /\ "data" \in DOMAIN stepLog[i].records[2]

(***************************************************************************)
(* C2: when the remote call of exactly one target of a device-level step   *)
(* raises, the step returns the all-success list of the same targets       *)
(* without that target's record: no placeholder, the rest unchanged and in *)
(* the same order.                                                         *)
(***************************************************************************)
C2_AllSuccess(i) ==
    execute_device_call(fleet, ApiCalls[i], i, Len(ApiCalls), selected_networks,
                        devices, <<>>, {}).results

C2_StepOk(i) ==
    (~stepLog[i].raised /\ Cardinality(FailedAt(StepCalls(i))) = 1) =>
        /\ Len(C2_AllSuccess(i)) = Len(StepCalls(i))
        /\ stepLog[i].records =
              RemoveAt(C2_AllSuccess(i), CHOOSE k \in FailedAt(StepCalls(i)) : TRUE)

C2_FailedDeviceDropped == Executed => \A i \in DeviceSteps : C2_StepOk(i)

\* three targets, the call of the middle one raised
C2_Witness ==
    /\ Executed
    /\ \E i \in DeviceSteps :
          /\ ~stepLog[i].raised
          /\ Len(StepCalls(i)) = 3
          /\ FailedAt(StepCalls(i)) = {2}
          /\ Len(stepLog[i].records) = 2

(***************************************************************************)
(* C3: in a device-level step a failure on one target, a cached record     *)
(* without a serial included, never keeps the other targets from being     *)
(* processed and never discards the records of the sibling targets: every  *)
(* target that has a serial gets its call, and every call that succeeded   *)
(* has its record in what the step returns.                                *)
(***************************************************************************)
C3_Callable == SelectSeq(Targets, LAMBDA t : "serial" \in DOMAIN t[2])

C3_Kept(i) == SelectSeq(stepLog[i].records, LAMBDA rec : "deviceSerial" \in DOMAIN rec)

C3_StepOk(i) ==
    ApiCalls[i].method \in DeviceApiMethods =>
        /\ Len(StepCalls(i)) = Len(C3_Callable)
        /\ Len(C3_Kept(i)) = Len(StepCalls(i)) - Cardinality(FailedAt(StepCalls(i)))

C3_FailureIsolation == Executed => \A i \in DeviceSteps : C3_StepOk(i)

(***************************************************************************)
(* C4: after an execute every bucket holds the records of all the steps    *)
(* that name it, the earlier step's records followed by the later step's.  *)
(***************************************************************************)
RECURSIVE C4_Appended(_, _)
C4_Appended(bucket, i) ==
    IF i > Len(stepLog) THEN <<>>
    ELSE (IF ApiCalls[i].output_folder = bucket THEN stepLog[i].records ELSE <<>>)
         \o C4_Appended(bucket, i + 1)

C4_SharedBucketAppends ==
    Executed => \A b \in DOMAIN results.results :
                    results.results[b][2] = C4_Appended(results.results[b][1], 1)

(***************************************************************************)
(* C5: when an exception leaves a step's dispatch, the step puts a single  *)
(* entry carrying an error description under its bucket, and every later   *)
(* step of the playbook is still executed.                                 *)
(***************************************************************************)
\* no later step names the bucket of step i
C5_LastWriter(i) ==
    \A j \in DOMAIN stepLog : j > i => ApiCalls[j].output_folder # ApiCalls[i].output_folder

C5_StepOk(i) ==
    stepLog[i].raised =>
        /\ Len(stepLog[i].records) = 1
        /\ DOMAIN stepLog[i].records[1] = {"error"}
        /\ stepLog[i].records[1] = StepErrorEntry(ApiCalls[i], KeyErrorSerial)
        /\ C5_LastWriter(i) =>
              DictGet(results.results, ApiCalls[i].output_folder) = stepLog[i].records
        /\ \A j \in DOMAIN ApiCalls :
              (j > i /\ Dispatchable(ApiCalls[j])) =>
                  Len(StepCalls(j)) = Len(selected_networks)

C5_StepExceptionCaught ==
    Executed => /\ Len(stepLog) = Len(ApiCalls)
                /\ \A i \in DOMAIN stepLog : C5_StepOk(i)

\* a step raised and a later step made its remote calls
C5_Witness ==
    /\ Executed
    /\ \E i \in DOMAIN stepLog :
          /\ stepLog[i].raised
          /\ \E j \in DOMAIN stepLog : j > i /\ StepCalls(j) # <<>>

(***************************************************************************)
(* C6: the values passed to the progress callback during one execute never *)
(* decrease, and the last one is exactly 100.                              *)
(***************************************************************************)
C6_ProgressMonotone ==
    Executed =>
        /\ \A j \in 1..(Len(progressLog) - 1) : ~FLess(progressLog[j + 1], progressLog[j])
        /\ progressLog[Len(progressLog)] = F100

(***************************************************************************)
(* C7, as stated: after an execute of a playbook with a device-level step, *)
(* the preload made exactly one discovery call for every selected network  *)
(* and every selected network has its cache entry.                         *)
(***************************************************************************)
C7_Preloaded == Executed /\ AnyRequiresDevice(ApiCalls)

C7_OneCallAndEntryPerNetwork ==
    C7_Preloaded =>
        \A j \in DOMAIN selected_networks :
            /\ Len(DiscoveryCalls(StepCalls(0), selected_networks[j].id)) = 1
            /\ selected_networks[j].id \in DOMAIN devices

(***************************************************************************)
(* C7, amended: the preload of an execute with a device-level step makes   *)
(* one discovery call for every selected network that has no cache entry   *)
(* and none for one that has, however many device-level steps there are; a *)
(* network has a cache entry afterwards exactly when it had one before or  *)
(* its discovery call succeeded.                                           *)
(***************************************************************************)
C7_PreloadStep ==
    (lastOp'.op = "execute" /\ lastOp'.raised = "" /\ ops' = ops + 1
        /\ AnyRequiresDevice(ApiCalls)) =>
        \A j \in DOMAIN selected_networks :
           LET id == selected_networks[j].id
               made == DiscoveryCalls(SelectSeq(callLog', LAMBDA c : c.step = 0), id)
           IN /\ Len(made) = (IF id \in DOMAIN devices THEN 0 ELSE 1)
              /\ id \in DOMAIN devices' <=>
                    (id \in DOMAIN devices \/ (made # <<>> /\ made[1].ok))

C7_PreloadOncePerUncached == [][C7_PreloadStep]_vars

\* two device-level steps, one preload call for the network although both
\* steps read its devices
C7_Witness ==
    /\ C7_Preloaded
    /\ Cardinality(DeviceSteps) = 2
    /\ \E j \in DOMAIN selected_networks :
          /\ Len(DiscoveryCalls(StepCalls(0), selected_networks[j].id)) = 1
          /\ selected_networks[j].id \in DOMAIN devices
          /\ \A i \in DeviceSteps : StepCalls(i) # <<>>

(***************************************************************************)
(* C8: once a network has its entry in the device cache, no operation of   *)
(* the session issues another discovery call for it.  A discovery call for *)
(* a network carries its id as networkId; the call of the window's device  *)
(* filter carries a network record and is left aside here.                 *)
(***************************************************************************)
C8_Step ==
    lastOp'.op # "execute_playbook" =>
        \A id \in DOMAIN devices : DiscoveryCalls(callLog', id) = <<>>

C8_NoRefetchOnceCached == [][C8_Step]_vars

(***************************************************************************)
(* C9: every device record in the cache the device-level dispatch reads    *)
(* has a serial.                                                           *)
(***************************************************************************)
C9_CachedRecordsHaveSerial ==
    \A id \in DOMAIN devices :
        \A j \in DOMAIN devices[id] : "serial" \in DOMAIN devices[id][j]

(***************************************************************************)
(* C10: when the preload's discovery call fails for a selected network,    *)
(* the execute still ends normally, that network gives no target to any    *)
(* device-level step, and every device of the other selected networks is   *)
(* processed by every device-level step.                                   *)
(***************************************************************************)
C10_Failed == {StepCalls(0)[k].params.networkId : k \in FailedAt(StepCalls(0))}

C10_StepOk(i) ==
    /\ \A k \in DOMAIN Targets : Targets[k][1].id \notin C10_Failed
    /\ ApiCalls[i].method \in DeviceApiMethods =>
          \A k \in DOMAIN Targets :
              "serial" \in DOMAIN Targets[k][2] =>
                  \E c \in DOMAIN StepCalls(i) :
                      StepCalls(i)[c].params.serial = Targets[k][2].serial

C10_DiscoveryFailureNotFatal ==
    (lastOp.op = "execute" /\ current_playbook # <<>> /\ C10_Failed # {}) =>
        /\ lastOp.raised = ""
        /\ Len(stepLog) = Len(ApiCalls)
        /\ \A i \in DeviceSteps : C10_StepOk(i)

(***************************************************************************)
(* C11: when a network-level device-listing step (networks.devices)        *)
(* succeeds for a network, the list it returned is in the cache entry of   *)
(* that network that the later device-level steps of the run iterate.      *)
(***************************************************************************)
C11_Listing(i) == ~stepLog[i].device_level /\ ApiCalls[i].endpoint = <<"networks", "devices">>

\* the devices the device-level steps iterate for the network
C11_Iterated(network) == CachedDevices(devices, network)

C11_StepOk(i) ==
    \A j \in DOMAIN StepCalls(i) :
        StepCalls(i)[j].ok =>
            /\ selected_networks[j].id \in DOMAIN devices
            /\ WithSerial(C11_Iterated(selected_networks[j]))
                  = WithSerial(stepLog[i].records[j].data.v)

C11_ListingWarmsCache ==
    Executed => \A i \in DOMAIN stepLog : C11_Listing(i) => C11_StepOk(i)

(***************************************************************************)
(* C12: execute raises exactly when no playbook is loaded, and then makes  *)
(* no remote call; with a playbook it ends with a run result (metadata     *)
(* naming the selected networks, a bucket for every step) whatever the     *)
(* selection, the cache and the failing calls are.                         *)
(***************************************************************************)
C12_RunResult ==
    /\ DOMAIN results = {"metadata", "results"}
    /\ results.metadata.playbook_name = current_playbook[1].config.name
    /\ results.metadata.networks = Names(selected_networks)
    /\ \A i \in DOMAIN ApiCalls : DictHas(results.results, ApiCalls[i].output_folder)

C12_FailsOnlyWithoutPlaybook ==
    lastOp.op = "execute" =>
        IF current_playbook = <<>>
        THEN lastOp.raised # "" /\ callLog = <<>>
        ELSE lastOp.raised = "" /\ C12_RunResult

\* an execute that met a failing discovery call, a failing step call and a
\* cached record without a serial, and still returned its result
C12_Witness ==
    /\ Executed
    /\ FailedAt(StepCalls(0)) # {}
    /\ \E i \in DOMAIN stepLog : FailedAt(StepCalls(i)) # {}
    /\ \E i \in DOMAIN stepLog : stepLog[i].raised
    /\ C12_RunResult

(***************************************************************************)
(* C13: the remote calls of an execute are issued step by step in playbook *)
(* order, and the buckets of the result are in the order of the first step *)
(* that writes each of them.                                               *)
(***************************************************************************)
RECURSIVE C13_FirstWriters(_, _)
C13_FirstWriters(i, seen) ==
    IF i > Len(ApiCalls) THEN <<>>
    ELSE IF ApiCalls[i].output_folder \in seen THEN C13_FirstWriters(i + 1, seen)
    ELSE <<ApiCalls[i].output_folder>>
         \o C13_FirstWriters(i + 1, seen \cup {ApiCalls[i].output_folder})

C13_BucketOrder == [b \in DOMAIN results.results |-> results.results[b][1]]

C13_PlaybookOrder ==
    Executed =>
        /\ \A a, b \in DOMAIN callLog : a < b => callLog[a].step <= callLog[b].step
        /\ C13_BucketOrder = C13_FirstWriters(1, {})

\* three steps that made calls, two of them sharing the second bucket
C13_Witness ==
    /\ Executed
    /\ Len(ApiCalls) = 3
    /\ \A i \in 1..3 : StepCalls(i) # <<>>
    /\ C13_BucketOrder = <<"inventory", "audit">>

(***************************************************************************)
(* C20: every record a dispatch produced carries a payload or an error     *)
(* description, never both and never neither.                              *)
(***************************************************************************)
C20_RecordOk(rec) == ("data" \in DOMAIN rec) # ("error" \in DOMAIN rec)

C20_PayloadXorError ==
    Executed =>
        /\ \A i \in DOMAIN stepLog :
              \A j \in DOMAIN stepLog[i].records : C20_RecordOk(stepLog[i].records[j])
        /\ \A b \in DOMAIN results.results :
              \A j \in DOMAIN results.results[b][2] : C20_RecordOk(results.results[b][2][j])

\* a result holding network records with a payload, one with an error, and
\* device records
C20_Witness ==
    /\ Executed
    /\ \E i \in NetworkSteps :
          /\ \E j \in DOMAIN stepLog[i].records : "error" \in DOMAIN stepLog[i].records[j]
          /\ \E j \in DOMAIN stepLog[i].records : "data" \in DOMAIN stepLog[i].records[j]
    /\ \E i \in DeviceSteps :
          \E j \in DOMAIN stepLog[i].records : "deviceSerial" \in DOMAIN stepLog[i].records[j]

(***************************************************************************)
(* Reading what a generate_report left on disk                             *)
(***************************************************************************)
\* the last operation was a generate_report that got to create its directory
ReportStarted == lastOp.op = "generate_report" /\ written # <<>>

FilesOf(kind, folder) ==
    SelectSeq(written, LAMBDA f : f.kind = kind /\ Len(f.path) > 2 /\ f.path[3] = folder)

\* the records of a bucket that carry a payload, in order
SuccessRecords(data) == SelectSeq(data, LAMBDA rec : "data" \in DOMAIN rec)

\* the rows of the bucket's CSV, none when there is no CSV
CsvRows(folder) ==
    IF FilesOf("csv", folder) = <<>> THEN <<>> ELSE FilesOf("csv", folder)[1].rows

CommonNames == {"network", "deviceName", "deviceSerial", "deviceModel", "deviceType"}

(***************************************************************************)
(* C16: for every bucket of the result, generate_report writes no CSV and  *)
(* no schema file when the bucket flattens to no row, and otherwise        *)
(* exactly one CSV whose header is the union of the keys of the bucket's   *)
(* rows (each row carrying its timestamp).                                 *)
(***************************************************************************)
C16_BucketOk(folder, rows) ==
    IF rows = <<>>
    THEN FilesOf("csv", folder) = <<>> /\ FilesOf("schema", folder) = <<>>
    ELSE /\ Len(FilesOf("csv", folder)) = 1
         /\ FilesOf("csv", folder)[1].header = Columns(rows) \cup {"timestamp"}

C16_OneCsvPerNonEmptyBucket ==
    ReportStarted =>
        \A b \in DOMAIN results.results :
            C16_BucketOk(results.results[b][1], flatten(results.results[b][2]).rows)

(***************************************************************************)
(* C17: generate_report turns every record of a bucket into a row, an      *)
(* error record into a row with the error text and the network; a bucket   *)
(* has as many rows as records.                                            *)
(***************************************************************************)
C17_BucketOk(folder, data) ==
    /\ Len(CsvRows(folder)) = Len(data)
    /\ \A j \in DOMAIN data :
          "error" \in DOMAIN data[j] =>
              /\ "error" \in DOMAIN CsvRows(folder)[j]
              /\ CsvRows(folder)[j].error = data[j].error

C17_EveryRecordARow ==
    ReportStarted =>
        \A b \in DOMAIN results.results :
            C17_BucketOk(results.results[b][1], results.results[b][2])

(***************************************************************************)
(* C18: a record whose payload is a list gets exactly one row; its columns *)
(* besides the common ones are the fields of the list's first element, and *)
(* none when the list is empty.                                            *)
(***************************************************************************)
C18_First(items) == IF items = <<>> THEN [k \in {} |-> ""] ELSE items[1]

C18_RowOk(row, items) ==
    /\ DOMAIN row = CommonNames \cup {"timestamp"} \cup DOMAIN C18_First(items)
    /\ \A k \in DOMAIN C18_First(items) : row[k] = C18_First(items)[k]

C18_BucketOk(folder, success) ==
    /\ Len(CsvRows(folder)) = Len(success)
    /\ \A j \in DOMAIN success :
          success[j].data.t = "list" => C18_RowOk(CsvRows(folder)[j], success[j].data.v)

C18_ListGivesFirstElement ==
    ReportStarted =>
        \A b \in DOMAIN results.results :
            C18_BucketOk(results.results[b][1], SuccessRecords(results.results[b][2]))

(***************************************************************************)
(* C19: generate_report on an executor whose results are empty, that is    *)
(* before any execute has completed, raises and creates no directory and   *)
(* no file.                                                                *)
(***************************************************************************)
C19_NoResultsNoReport ==
    (lastOp.op = "generate_report" /\ DOMAIN results = {}) =>
        /\ lastOp.raised = "No results to generate report from"
        /\ written = <<>>

\* a report asked for after an execute that raised for want of a playbook
C19_Witness ==
    /\ lastOp.op = "generate_report"
    /\ DOMAIN results = {}
    /\ ops > 0
    /\ lastOp.raised # ""

(***************************************************************************)
(* The inputs the two functions are applied to                             *)
(***************************************************************************)
\* a key the tree may lack: <<>> is the missing key, <<v>> the key with value v
Key(key, o) == IF o = <<>> THEN NoKeys ELSE (key :> o[1])

Texts(value) == {<<>>, <<"">>, <<value>>}

\* the endpoint missing, empty, network-level, per-device, a single segment
Endpoints ==
    {<<>>, << <<>> >>, << <<"networks", "devices">> >>, << <<"devices", "switch", "ports">> >>,
     << <<"devices">> >>}

ApiTrees ==
    {Key("endpoint", e) @@ Key("method", m) @@ Key("filters", f) @@ Key("requires_device", r) :
        e \in Endpoints, m \in Texts("getNetworkDevices"),
        f \in {<<>>, <<[model |-> "MS"]>>}, r \in {<<>>, <<TRUE>>, <<FALSE>>}}

CallTrees ==
    {Key("name", n) @@ Key("output", o) @@ Key("api", <<a>>) :
        n \in Texts("inventory"), o \in Texts("inv"), a \in ApiTrees}

GoodCall ==
    [name |-> "ports", output |-> "audit",
     api |-> [endpoint |-> <<"devices", "switch", "ports">>, method |-> "getDeviceSwitchPorts",
              parameters |-> [timespan |-> "3600"]]]

\* no api_calls key, an empty list, lists of one and of two operations, a null
\* entry and an entry with a null api; api_calls is a list when it is there
CallLists ==
    {<<>>, << <<>> >>, << <<GoodCall>> >>, << <<[name |-> "bare"]>> >>,
     << <<PyNone>> >>, << <<GoodCall, PyNone>> >>,
     << <<GoodCall, [name |-> "void", output |-> "void", api |-> PyNone]>> >>}
    \cup {<< <<c>> >> : c \in CallTrees}
    \cup {<< <<GoodCall, c>> >> : c \in CallTrees}

ConfigTrees == {<<>>, <<NoKeys>>, <<[name |-> "audit", version |-> "2.0"]>>, <<PyNone>>}

PlaybookTrees ==
    {Key("config", c) @@ Key("api_calls", l) : c \in ConfigTrees, l \in CallLists}

PyInt(n) == [t |-> "int", n |-> n]

FieldPaths == {<<"a">>, <<"a", "b">>, <<"a", "c">>, <<"a", "b", "c">>, <<"x">>}

MaxPaths == 3       \* field paths in one output_filter

FieldPathLists == UNION {[1..n -> FieldPaths] : n \in 0..MaxPaths}

\* the responses by number: values of different Python types are never compared
Responses ==
    << PyDict([a |-> PyDict([b |-> PyInt(1)])]),
       PyDict([a |-> PyInt(5), x |-> PyNone]),
       PyDict([a |-> PyDict([b |-> PyDict([c |-> PyStr("deep")])]), x |-> PyStr("top")]),
       PyDict(NoKeys),
       PyList(<<DevA>>),
       PyStr("text"),
       PyNone >>

FilterStep(output_filter) ==
    ApiCall("probe", <<"devices", "info">>, "getDevice", "devinfo", NoParams,
            output_filter, FALSE)

\* the inputs a behaviour starts from: a playbook file, a Playbook object that
\* was never loaded, a response with the output_filter of its operation
InitModel ==
    /\ fleet = CHOOSE f \in Fleets : TRUE
    /\ networks = <<>>
    /\ selected_networks = <<>>
    /\ devices = EmptyDict
    /\ executor_devices = EmptyDict
    /\ current_playbook = <<>>
    /\ results = EmptyDict
    /\ callLog = <<>>
    /\ progressLog = <<>>
    /\ stepLog = <<>>
    /\ lastOp = [op |-> "init", raised |-> ""]
    /\ ops = 0
    /\ written = <<>>
    /\ \/ \E data \in PlaybookTrees : probe = [fn |-> "file", data |-> data]
       \/ probe = [fn |-> "object", playbook |-> NewPlaybook]
       \/ \E output_filter \in FieldPathLists, r \in DOMAIN Responses :
             probe = [fn |-> "response", output_filter |-> output_filter,
                      response |-> Responses[r]]

engine ==
    <<fleet, networks, selected_networks, devices, executor_devices, current_playbook,
      results, callLog, progressLog, stepLog, lastOp, ops, written>>

LoadedProbe(data, l) ==
    [fn |-> "validate", loaded |-> TRUE, input |-> data, raised |-> l.raised,
     playbook |-> l.playbook, output |-> validate(l.playbook)]

\* Playbook(path).load() on a file, then validate()
LoadAndValidate ==
    /\ probe.fn = "file"
    /\ probe' = LoadedProbe(probe.data, load(probe.data))
    /\ UNCHANGED engine

FromYamlProbe(data, r) ==
    [fn |-> "from_yaml", loaded |-> TRUE, input |-> data, raised |-> r.raised,
     playbook |-> IF r.raised = "" THEN r.playbook[1] ELSE NewPlaybook]

\* Playbook.from_yaml(path) of core.py on a file
FromYaml ==
    /\ probe.fn = "file"
    /\ probe' = FromYamlProbe(probe.data, from_yaml(probe.data))
    /\ UNCHANGED engine

\* validate() on a Playbook that was never loaded
ValidateUnloaded ==
    /\ probe.fn = "object"
    /\ probe' = [fn |-> "validate", loaded |-> FALSE, input |-> NoKeys, raised |-> "",
                 playbook |-> probe.playbook, output |-> validate(probe.playbook)]
    /\ UNCHANGED engine

\* call.filter_response(response)
FilterResponse ==
    /\ probe.fn = "response"
    /\ probe' = [fn |-> "filter_response", output_filter |-> probe.output_filter,
                 response |-> probe.response,
                 output |-> filter_response(FilterStep(probe.output_filter), probe.response)]
    /\ UNCHANGED engine

NextModel ==
    \/ LoadAndValidate
    \/ FromYaml
    \/ ValidateUnloaded
    \/ FilterResponse

SpecModel == InitModel /\ [][NextModel]_vars

(***************************************************************************)
(* C14: validate returns false when the config is absent (a loaded file    *)
(* without a config section included), when there is no operation, or when *)
(* an operation has an empty name, endpoint, method or output; it returns  *)
(* true in every other case, whatever the parameters and filters are.      *)
(***************************************************************************)
C14_ConfigPresent ==
    probe.loaded /\ "config" \in DOMAIN probe.input /\ probe.input.config # PyNone

C14_Text(d, key) == key \in DOMAIN d /\ d[key] # ""

C14_CallOk(call) ==
    /\ C14_Text(call, "name")
    /\ C14_Text(call, "output")
    /\ "api" \in DOMAIN call
    /\ "endpoint" \in DOMAIN call.api
    /\ call.api.endpoint # <<>>
    /\ C14_Text(call.api, "method")

C14_Calls == Get(probe.input, "api_calls", <<>>)

C14_ValidateIffComplete ==
    probe.fn = "validate" =>
        probe.output = (/\ C14_ConfigPresent
                        /\ C14_Calls # <<>>
                        /\ \A i \in DOMAIN C14_Calls : C14_CallOk(C14_Calls[i]))

(***************************************************************************)
(* C15: filter_response returns the response unchanged when there is no    *)
(* field path or the response is not an object; otherwise an object with   *)
(* one key per requested path (the dotted path), in request order, whose   *)
(* value is the one reached by walking the path through nested objects, or *)
(* null when a segment is missing or an intermediate value is no object.   *)
(***************************************************************************)
RECURSIVE C15_Reached(_, _)
C15_Reached(value, path) ==
    IF path = <<>> THEN value
    ELSE IF value.t # "dict" THEN PyNone
    ELSE IF Head(path) \notin DOMAIN value.v THEN PyNone
    ELSE C15_Reached(value.v[Head(path)], Tail(path))

\* the dotted paths in request order, each at its first place
RECURSIVE C15_Requested(_, _)
C15_Requested(paths, seen) ==
    IF paths = <<>> THEN <<>>
    ELSE IF Join(Head(paths), ".") \in seen THEN C15_Requested(Tail(paths), seen)
    ELSE <<Join(Head(paths), ".")>>
         \o C15_Requested(Tail(paths), seen \cup {Join(Head(paths), ".")})

C15_Projected ==
    /\ probe.output.t = "dict"
    /\ probe.output.k = C15_Requested(probe.output_filter, {})
    /\ DOMAIN probe.output.v = {Join(probe.output_filter[j], ".") : j \in DOMAIN probe.output_filter}
    /\ \A j \in DOMAIN probe.output_filter :
          probe.output.v[Join(probe.output_filter[j], ".")]
              = C15_Reached(probe.response, probe.output_filter[j])

C15_Projection ==
    probe.fn = "filter_response" =>
        IF probe.output_filter = <<>> \/ probe.response.t # "dict"
        THEN probe.output = probe.response
        ELSE C15_Projected

\* {a: {b: 1}} with the paths a.b, a.c gives {a.b: 1, a.c: null}
C15_Witness ==
    /\ probe.fn = "filter_response"
    /\ probe.response = Responses[1]
    /\ probe.output_filter = <<<<"a", "b">>, <<"a", "c">>>>
    /\ probe.output.k = <<"a.b", "a.c">>
    /\ probe.output.v["a.b"] = PyInt(1)
    /\ probe.output.v["a.c"] = PyNone

(***************************************************************************)
(* C21: when the target list built from the cache is empty, a device-level *)
(* step makes no remote call and returns no record; its bucket is present  *)
(* and, unless a later step writes it, empty; the step is not an error     *)
(* entry and the execute goes on with the steps after it.                  *)
(***************************************************************************)
C21_LastWriter(i) ==
    \A j \in DOMAIN ApiCalls : j > i => ApiCalls[j].output_folder # ApiCalls[i].output_folder

C21_StepOk(i) ==
    /\ StepCalls(i) = <<>>
    /\ ~stepLog[i].raised
    /\ stepLog[i].records = <<>>
    /\ DictHas(results.results, ApiCalls[i].output_folder)
    /\ C21_LastWriter(i) => DictGet(results.results, ApiCalls[i].output_folder) = <<>>

C21_NoTargetsNoRecords ==
    (Executed /\ Targets = <<>>) =>
        /\ Len(stepLog) = Len(ApiCalls)
        /\ \A i \in DeviceSteps : C21_StepOk(i)

\* networks are selected, none has a cached device, and the step after the
\* device-level step ran and returned records
C21_Witness ==
    /\ Executed
    /\ Targets = <<>>
    /\ selected_networks # <<>>
    /\ \E i \in DeviceSteps :
          /\ i < Len(stepLog)
          /\ stepLog[i].records = <<>>
          /\ stepLog[i + 1].records # <<>>

(***************************************************************************)
(* C24: load_playbook on a structurally invalid playbook raises and leaves *)
(* the executor's current playbook and results as they were; an execute    *)
(* that follows runs no operation of the invalid playbook.                 *)
(***************************************************************************)
C24_Invalid(data) == load(data).raised # "" \/ ~validate(load(data).playbook)

C24_Buckets(data) == {Get(data.api_calls[i], "output", "") : i \in DOMAIN data.api_calls}

C24_FailedLoad ==
    (lastOp'.op = "load_playbook" /\ C24_Invalid(lastOp'.file)) =>
        /\ lastOp'.raised # ""
        /\ current_playbook' = current_playbook
        /\ results' = results

C24_ExecuteAfter ==
    (lastOp.op = "load_playbook" /\ C24_Invalid(lastOp.file)
       /\ lastOp'.op = "execute" /\ lastOp'.raised = "") =>
        /\ current_playbook' = current_playbook
        /\ results'.metadata.playbook_name # lastOp.file.config.name
        /\ \A b \in C24_Buckets(lastOp.file) : ~DictHas(results'.results, b)

C24_InvalidNeverLoaded == [][C24_FailedLoad /\ C24_ExecuteAfter]_vars

\* a playbook was set and executed, then the load of an invalid file failed
C24_Witness ==
    /\ lastOp.op = "load_playbook"
    /\ C24_Invalid(lastOp.file)
    /\ lastOp.raised # ""
    /\ current_playbook # <<>>
    /\ results # EmptyDict

(***************************************************************************)
(* C25: load_playbook on a well-formed playbook file that passes           *)
(* validation returns the playbook and makes it the executor's current     *)
(* playbook.                                                               *)
(***************************************************************************)
C25_Loaded(data) ==
    /\ current_playbook # <<>>
    /\ current_playbook[1].config.name = data.config.name
    /\ [i \in DOMAIN current_playbook[1].api_calls |-> current_playbook[1].api_calls[i].name]
          = [i \in DOMAIN data.api_calls |-> data.api_calls[i].name]

C25_ValidLoadSetsPlaybook ==
    (lastOp.op = "load_playbook" /\ ~C24_Invalid(lastOp.file)) =>
        (lastOp.raised = "" /\ C25_Loaded(lastOp.file))

(***************************************************************************)
(* C22: an operation of a loaded playbook is dispatched device-level       *)
(* exactly when the first segment of its endpoint is devices or its        *)
(* requires_device override is set, and network-level otherwise.           *)
(***************************************************************************)
\* execute: if step.requires_device, the device-level dispatch, else the other
C22_DeviceLevel(step) == step.requires_device

C22_Override(call) == "api" \in DOMAIN call /\ Get(call.api, "requires_device", FALSE)

C22_PerDevice(call) ==
    /\ "api" \in DOMAIN call
    /\ Get(call.api, "endpoint", <<>>) # <<>>
    /\ call.api.endpoint[1] = "devices"

C22_Loaded == probe.fn \in {"validate", "from_yaml"} /\ probe.loaded /\ probe.raised = ""

C22_DispatchByEndpoint ==
    C22_Loaded =>
        \A i \in DOMAIN probe.playbook.api_calls :
            C22_DeviceLevel(probe.playbook.api_calls[i])
                <=> (C22_PerDevice(probe.input.api_calls[i])
                        \/ C22_Override(probe.input.api_calls[i]))

(***************************************************************************)
(* C23: a device-level step whose calls all succeed returns exactly one    *)
(* record per cached (network, device) pair of the selected networks, in   *)
(* the order of the selection and, within a network, of the cached list;   *)
(* the record carries the network, the device and the projected payload.   *)
(***************************************************************************)
C23_Payload(step, device) ==
    filter_response(step, Response(fleet, "devices", step.method,
                                   MergeParams(step.parameters, "serial", device.serial)))

C23_RecordOk(rec, step, network, device) ==
    /\ DOMAIN rec = {"network", "networkId", "deviceName", "deviceSerial", "deviceModel",
                     "deviceType", "data"}
    /\ rec.network = network.name
    /\ rec.networkId = network.id
    /\ rec.deviceSerial = device.serial
    /\ rec.deviceName = (IF "name" \in DOMAIN device THEN device.name ELSE device.serial)
    /\ rec.deviceModel = (IF "model" \in DOMAIN device THEN device.model ELSE "")
    /\ rec.deviceType = (IF "productType" \in DOMAIN device THEN device.productType ELSE "")
    /\ rec.data = C23_Payload(step, device)

C23_StepOk(i) ==
    (ApiCalls[i].method \in DeviceApiMethods /\ FailedAt(StepCalls(i)) = {}) =>
        /\ Len(stepLog[i].records) = Len(Targets)
        /\ \A k \in DOMAIN Targets :
              C23_RecordOk(stepLog[i].records[k], ApiCalls[i], Targets[k][1], Targets[k][2])
        /\ C21_LastWriter(i) =>
              DictGet(results.results, ApiCalls[i].output_folder) = stepLog[i].records

C23_OneRecordPerPair == Executed => \A i \in DeviceSteps : C23_StepOk(i)

(***************************************************************************)
(* C28: generate_report never modifies the executor's results: whether it  *)
(* returns or raises, executor.results after the call equals               *)
(* executor.results before it.                                             *)
(***************************************************************************)
C28_ReportKeepsResults == [][lastOp'.op = "generate_report" => results' = results]_vars

\* a report was written in full and the results of the execute are still there
C28_Witness ==
    /\ lastOp.op = "generate_report"
    /\ lastOp.raised = ""
    /\ FilesOf("csv", "audit") # <<>>
    /\ DictHas(results.results, "audit")

(***************************************************************************)
(* C29: generate_report('csv', name) does not raise on any result an       *)
(* execute can return, a bucket holding the single error entry of a        *)
(* whole-step exception and buckets with per-network error records         *)
(* included.                                                               *)
(***************************************************************************)
C29_ReportNeverRaises ==
    (lastOp.op = "generate_report" /\ DOMAIN results # {}) =>
        lastOp.raised \in {"", "Unsupported report type: json"}

(***************************************************************************)
(* C26: when the playbook has a device-level operation, every discovery    *)
(* call of the preload is issued before the first remote call of any step  *)
(* of the playbook; when it has none, the execute issues no preload call.  *)
(***************************************************************************)
C26_IsPreloadCall(c) ==
    /\ c.api = "networks"
    /\ c.method = "getNetworkDevices"
    /\ \E j \in DOMAIN selected_networks : c.params = [networkId |-> selected_networks[j].id]

C26_PreloadBeforeSteps ==
    Executed =>
        /\ \A a \in DOMAIN callLog, b \in DOMAIN callLog :
              (callLog[a].step = 0 /\ callLog[b].step > 0) => a < b
        /\ \A k \in DOMAIN StepCalls(0) : C26_IsPreloadCall(StepCalls(0)[k])
        /\ ~AnyRequiresDevice(ApiCalls) => StepCalls(0) = <<>>

\* two networks preloaded, then a network-level and a device-level step that
\* both issue calls
C26_Witness ==
    /\ Executed
    /\ Len(StepCalls(0)) = 2
    /\ \E i \in NetworkSteps : StepCalls(i) # <<>>
    /\ \E i \in DeviceSteps : StepCalls(i) # <<>>

(***************************************************************************)
(* C27: after select_networks the cache entry of every selected network is *)
(* the device list that call discovered or, when its discovery failed,     *)
(* absent: no list of an earlier selection is left for the dispatch.       *)
(***************************************************************************)
C27_EntryOk(id) ==
    IF DiscoveryCalls(callLog, id)[1].ok
    THEN id \in DOMAIN devices /\ devices[id] = fleet[id]
    ELSE id \notin DOMAIN devices

C27_CacheScopedToSelection ==
    lastOp.op = "select_networks" =>
        \A j \in DOMAIN selected_networks : C27_EntryOk(selected_networks[j].id)

(***************************************************************************)
(* C30: within one step the remote operation is invoked exactly once per   *)
(* target, failed or not: once per selected network in a network-level     *)
(* step, once per cached (network, device) pair in a device-level step;    *)
(* the target's networkId or serial replaces a static parameter of the     *)
(* same name.                                                              *)
(***************************************************************************)
C30_Params(step, key, value) ==
    [p \in DOMAIN step.parameters \cup {key} |->
        IF p = key THEN value ELSE step.parameters[p]]

C30_NetworkOk(i) ==
    Dispatchable(ApiCalls[i]) =>
        /\ Len(StepCalls(i)) = Len(selected_networks)
        /\ \A k \in DOMAIN selected_networks :
              StepCalls(i)[k].params = C30_Params(ApiCalls[i], "networkId", selected_networks[k].id)

C30_DeviceOk(i) ==
    ApiCalls[i].method \in DeviceApiMethods =>
        /\ Len(StepCalls(i)) = Len(Targets)
        /\ \A k \in DOMAIN Targets :
              /\ "serial" \in DOMAIN Targets[k][2]
              /\ StepCalls(i)[k].params = C30_Params(ApiCalls[i], "serial", Targets[k][2].serial)

C30_OncePerTarget ==
    Executed =>
        /\ \A i \in NetworkSteps : C30_NetworkOk(i)
        /\ \A i \in DeviceSteps : C30_DeviceOk(i)

====
